---- MODULE Spec2Model ----
(***************************************************************************)
(* A model of the event/message bus of wings-sanic:                        *)
(*   - MqServer   (wings_sanic/mq_servers/rabbitmq_server.py): connection  *)
(*     state machine, reconnect timers, consumer registration;             *)
(*   - Consumer   (same file): handling of one delivery, retry envelopes;  *)
(*   - the request-scoped outbox (wings_sanic/event.py, application.py).   *)
(* Every coroutine is cut at its awaits: one action runs the code from one *)
(* suspension point to the next.  An awaited broker operation returns or   *)
(* raises, the choice is the environment's.                                *)
(***************************************************************************)
EXTENDS Integers, Sequences, FiniteSets, TLC

(* ---- bounds of the model ---- *)
MaxConns == 3             \* connections the broker accepts in one run
MaxStarts == 2            \* calls of MqServer.start()
MaxConsumers == 1         \* calls of MqServer.subscribe()
ReconnectDelay == 2       \* reconnect_delay, in clock ticks

NoConn == 0               \* Python None for connection / channel

ConnIds == 1..MaxConns
ConsumerIds == 1..MaxConsumers

States == {"INIT", "CONNECTING", "CONNECTED", "RUNNING", "CLOSED"}

VARIABLES
  state,          \* MqServer.state
  connection,     \* MqServer.connection (NoConn or a connection id)
  channel,        \* MqServer.channel: NoConn or the connection it was opened on
  conns,          \* broker side: connection id -> "unopened" | "open" | "closed"
  signalled,      \* connections whose on_error callback has been invoked
  ctasks,         \* __connect_to_broker tasks: bag of <<pc, connection its channel() is awaited on>>
  etasks,         \* __on_error tasks suspended in dispose(): a count
  timers,         \* loop.call_later handles: remaining ticks -> count
  errorAge,       \* ticks since an error signal closed a RUNNING server (saturating)
  startCalls,     \* calls of start() made so far
  startErrors,    \* calls of start() that raised 'already started'
  ploops,         \* __publish_loop tasks created
  consumers,      \* MqServer.consumers
  stasks          \* Consumer.start tasks created and not yet run: consumer -> count

connVars == <<state, connection, channel, conns, signalled, ctasks, etasks,
              timers>>
startVars == <<startCalls, startErrors, ploops>>
consVars == <<consumers, stasks>>
mqVars == <<connVars, startVars, consVars, errorAge>>

(* ---- bags as functions to Nat ---- *)
BagAdd(b, e) == [b EXCEPT ![e] = @ + 1]
BagRem(b, e) == [b EXCEPT ![e] = @ - 1]

CPcs == {"new", "from_url", "channel", "ex1", "ex2", "ex3", "ex4", "close"}
CTaskIds == CPcs \X (0..MaxConns)

(* ======================================================================= *)
(*                         MqServer: connection                            *)
(* ======================================================================= *)

(* MqServer.__init__ *)
InitMq ==
  /\ state = "INIT"
  /\ connection = NoConn
  /\ channel = NoConn
  /\ conns = [c \in ConnIds |-> "unopened"]
  /\ signalled = {}
  /\ ctasks = [t \in CTaskIds |-> 0]
  /\ etasks = 0
  /\ timers = [r \in 0..ReconnectDelay |-> 0]
  /\ errorAge = ReconnectDelay
  /\ startCalls = 0
  /\ startErrors = 0
  /\ ploops = 0
  /\ consumers = {}
  /\ stasks = [c \in ConsumerIds |-> 0]

(* loop.call_later(self.reconnect_delay, lambda: create_task(connect)) *)
CallLater(ts) == BagAdd(ts, ReconnectDelay)

(* MqServer.start(): the guard reads self.state, which only the connect    *)
(* task changes; both tasks are created, none has run when start returns.  *)
Start(limit) ==
  /\ startCalls < limit
  /\ startCalls' = startCalls + 1
  /\ IF state # "INIT"
       THEN /\ startErrors' = startErrors + 1
            /\ UNCHANGED <<ctasks, ploops>>
       ELSE /\ ctasks' = BagAdd(ctasks, <<"new", NoConn>>)
            /\ ploops' = ploops + 1
            /\ UNCHANGED startErrors
  /\ UNCHANGED <<state, connection, channel, conns, signalled, etasks, timers, consumers, stasks>>

(* MqServer.dispose() up to its await: the state and the handles are reset *)
(* and close() is called on the connection that was current, if any.       *)
(* `lost` is a connection the broker reported an error on (NoConn: none).  *)
DisposeSync(lost) ==
  /\ state' = "CLOSED"
  /\ connection' = NoConn
  /\ channel' = NoConn
  /\ conns' = [c \in ConnIds |->
                 IF c = connection \/ c = lost THEN "closed" ELSE conns[c]]

(* The except branch of __connect_to_broker, entered by the task <<pc, k>>: *)
(* dispose(); with no current connection None.close() raises at once, is    *)
(* swallowed, and the timer is set in the same step; otherwise the task     *)
(* waits for close() and sets the timer when it resumes.                    *)
ConnectExcept(t) ==
  /\ DisposeSync(NoConn)
  /\ IF connection = NoConn
       THEN /\ ctasks' = BagRem(ctasks, t)
            /\ timers' = CallLater(timers)
       ELSE /\ ctasks' = BagAdd(BagRem(ctasks, t), <<"close", NoConn>>)
            /\ UNCHANGED timers
  /\ UNCHANGED <<signalled, etasks, startVars, consumers, stasks>>

(* __connect_to_broker, first run: the guard, then state = CONNECTING and   *)
(* the await of aioamqp.from_url.                                           *)
ConnectBegin ==
  /\ ctasks[<<"new", NoConn>>] > 0
  /\ IF state \notin {"INIT", "CLOSED"}
       THEN /\ ctasks' = BagRem(ctasks, <<"new", NoConn>>)
            /\ UNCHANGED state
       ELSE /\ state' = "CONNECTING"
            /\ ctasks' = BagAdd(BagRem(ctasks, <<"new", NoConn>>), <<"from_url", NoConn>>)
  /\ UNCHANGED <<connection, channel, conns, signalled, etasks, timers, startVars, consumers, stasks>>

(* from_url returns a new connection k; self.connection = k; the task then  *)
(* awaits self.connection.channel().                                        *)
FromUrlOk ==
  /\ ctasks[<<"from_url", NoConn>>] > 0
  /\ \E k \in ConnIds :
       /\ conns[k] = "unopened"
       /\ \A j \in ConnIds : j < k => conns[j] # "unopened"
       /\ conns' = [conns EXCEPT ![k] = "open"]
       /\ connection' = k
       /\ ctasks' = BagAdd(BagRem(ctasks, <<"from_url", NoConn>>), <<"channel", k>>)
  /\ UNCHANGED <<state, channel, signalled, etasks, timers,
                 startVars, consumers, stasks>>

(* from_url raises *)
FromUrlFail ==
  /\ ctasks[<<"from_url", NoConn>>] > 0
  /\ ConnectExcept(<<"from_url", NoConn>>)

(* connection.channel() returns: self.channel is set, state = CONNECTED,    *)
(* __create_exchange awaits its first declare on self.channel.              *)
ChannelOk ==
  /\ \E k \in ConnIds :
       /\ ctasks[<<"channel", k>>] > 0
       /\ channel' = k
       /\ state' = "CONNECTED"
       /\ ctasks' = BagAdd(BagRem(ctasks, <<"channel", k>>), <<"ex1", NoConn>>)
  /\ UNCHANGED <<connection, conns, signalled, etasks, timers,
                 startVars, consumers, stasks>>

ChannelFail ==
  /\ \E k \in ConnIds :
       /\ ctasks[<<"channel", k>>] > 0
       /\ ConnectExcept(<<"channel", k>>)

NextEx(pc) == CASE pc = "ex1" -> "ex2" [] pc = "ex2" -> "ex3" [] OTHER -> "ex4"

(* One of the first three awaits of __create_exchange returns: the next     *)
(* statement calls a method of self.channel, an AttributeError when a       *)
(* dispose() has set it to None meanwhile.                                  *)
ExchangeStepOk ==
  /\ \E pc \in {"ex1", "ex2", "ex3"} :
       /\ ctasks[<<pc, NoConn>>] > 0
       /\ IF channel = NoConn
            THEN ConnectExcept(<<pc, NoConn>>)
            ELSE /\ ctasks' = BagAdd(BagRem(ctasks, <<pc, NoConn>>), <<NextEx(pc), NoConn>>)
                 /\ UNCHANGED <<state, connection, channel, conns, signalled, etasks,
                                timers, startVars, consumers, stasks>>

(* A __start_consumers that sets RUNNING and starts no consumer.            *)
StartConsumersNoLaunch ==
  /\ stasks' = stasks
  /\ state' = "RUNNING"

(* MqServer.__start_consumers: a start task per registered consumer, then  *)
(* state = RUNNING.                                                         *)
StartConsumers ==
  /\ stasks' = [c \in ConsumerIds |->
                  IF c \in consumers THEN stasks[c] + 1 ELSE stasks[c]]
  /\ state' = "RUNNING"

(* The last await of __create_exchange (queue_bind) returns.                *)
ExchangeDone ==
  /\ ctasks[<<"ex4", NoConn>>] > 0
  /\ ctasks' = BagRem(ctasks, <<"ex4", NoConn>>)
  /\ StartConsumers
  /\ UNCHANGED <<connection, channel, conns, signalled, etasks, timers, startVars, consumers>>

(* An await of __create_exchange raises.                                    *)
ExchangeFail ==
  /\ \E pc \in {"ex1", "ex2", "ex3", "ex4"} :
       /\ ctasks[<<pc, NoConn>>] > 0
       /\ ConnectExcept(<<pc, NoConn>>)

(* The close() awaited in dispose() returns or raises (both ignored); the   *)
(* except branch logs and sets the reconnect timer.                         *)
ConnectCloseDone ==
  /\ ctasks[<<"close", NoConn>>] > 0
  /\ ctasks' = BagRem(ctasks, <<"close", NoConn>>)
  /\ timers' = CallLater(timers)
  /\ UNCHANGED <<state, connection, channel, conns, signalled, etasks, startVars, consumers, stasks>>

(* The on_error callback given to from_url runs for connection k: dispose() *)
(* up to the await of close().                                              *)
OnError ==
  /\ \E k \in ConnIds :
       /\ conns[k] = "open"
       /\ k \notin signalled
       /\ signalled' = signalled \cup {k}
       /\ DisposeSync(k)
  /\ IF connection = NoConn
       THEN /\ timers' = CallLater(timers)
            /\ UNCHANGED etasks
       ELSE /\ etasks' = etasks + 1
            /\ UNCHANGED timers
  /\ UNCHANGED <<ctasks, startVars, consumers, stasks>>

(* __on_error after dispose(): log, set the reconnect timer.               *)
OnErrorCloseDone ==
  /\ etasks > 0
  /\ etasks' = etasks - 1
  /\ timers' = CallLater(timers)
  /\ UNCHANGED <<state, connection, channel, conns, signalled, ctasks, startVars, consumers, stasks>>

(* The timer with r ticks left runs its lambda: a connect task is created. *)
FireTimer(r) ==
  /\ timers[r] > 0
  /\ timers' = BagRem(timers, r)
  /\ ctasks' = BagAdd(ctasks, <<"new", NoConn>>)
  /\ UNCHANGED <<state, connection, channel, conns, signalled, etasks,
                 startVars, consumers, stasks>>

(* Without a clock: reconnect_delay has passed for some pending timer.     *)
TimerElapsed == \E r \in 0..ReconnectDelay : FireTimer(r)

(* With the clock: a timer runs when no tick of its delay is left.         *)
TimerDue == FireTimer(0)

(* One tick of the loop's clock: every pending timer is one tick nearer.   *)
Tick ==
  /\ \E r \in 1..ReconnectDelay : timers[r] > 0
  /\ timers' = [r \in 0..ReconnectDelay |->
                  IF r = 0 THEN timers[0] + timers[1]
                  ELSE IF r = ReconnectDelay THEN 0 ELSE timers[r + 1]]
  /\ errorAge' = IF errorAge < ReconnectDelay THEN errorAge + 1 ELSE errorAge
  /\ UNCHANGED <<state, connection, channel, conns, signalled, ctasks, etasks,
                 startVars, consumers, stasks>>

(* ======================================================================= *)
(*                   MqServer.subscribe and Consumer.start                 *)
(* ======================================================================= *)

(* MqServer.subscribe(): a new Consumer object joins self.consumers; its   *)
(* start() is launched at once only when the state is RUNNING.             *)
Subscribe ==
  /\ \E c \in ConsumerIds :
       /\ c \notin consumers
       /\ \A j \in ConsumerIds : j < c => j \in consumers
       /\ consumers' = consumers \cup {c}
       /\ IF state = "RUNNING"
            THEN stasks' = BagAdd(stasks, c)
            ELSE UNCHANGED stasks
  /\ UNCHANGED <<connVars, startVars>>

(* Consumer.start, first run: self.mq_server.connection.channel() is       *)
(* called on the connection current at that moment (an AttributeError on   *)
(* None ends the task).  The rest of start() works on the consumer's own   *)
(* channel and reads and writes nothing of the MqServer.                   *)
ConsumerStartBegin ==
  /\ \E c \in ConsumerIds :
       /\ stasks[c] > 0
       /\ stasks' = BagRem(stasks, c)
  /\ UNCHANGED <<connVars, startVars, consumers>>

(* ======================================================================= *)
(*                     Consumer: handling of deliveries                    *)
(* ======================================================================= *)

MaxRetry == 2             \* largest max_retry a consumer is built with
MaxAttempts == MaxRetry + 2   \* deliveries of one message the broker makes

Msgs == {1, 2}            \* the messages routed to the consumer's queue
NoEnvelope == [body |-> 0, exchange |-> "", key |-> "", count |-> 0, ttl |-> 0]

(* the x-retry-count entry of properties.headers: absent, a number, or a   *)
(* value that is not a number                                              *)
NoHeader == [kind |-> "none", val |-> 0]
BadHeader == [kind |-> "bad", val |-> 0]
Count(n) == [kind |-> "num", val |-> n]

VARIABLES
  maxRetry,       \* Consumer.max_retry
  dpc,            \* message -> position of the __handle_message task of its delivery
  bodyOk,         \* message -> its body can be decoded
  hdr,            \* message -> x-retry-count header of the delivery
  rc,             \* message -> retried_count of the running task
  res,            \* message -> outcome of the handler: "none", "ok", "raise", "timeout"
  raised,         \* message -> an exception left the except block of the task
  ops,            \* message -> acknowledgement calls made for the delivery
  sent,           \* message -> retry envelope published by the running task
  retryq,         \* message -> envelope waiting in the retry queue
  invoked,        \* message -> handler invocations for the message so far
  fails,          \* message -> handler failures for the message so far
  pubs,           \* message -> retry envelopes published for the message so far
  committed       \* message -> event.commit_events() was called by the running task

dVars == <<maxRetry, dpc, bodyOk, hdr, rc, res, raised, ops, sent, retryq,
           invoked, fails, pubs, committed>>

(* the mutant of get_ttl below: the cap is applied one step late *)
get_ttl_late(retry_count) ==
  IF retry_count <= 0 THEN 0
  ELSE IF retry_count > 8 THEN 3 * 60 * 1000
  ELSE (2 ^ retry_count) * 1000

(* Consumer.get_ttl *)
get_ttl(retry_count) ==
  IF retry_count <= 0 THEN 0
  ELSE IF retry_count > 7 THEN 3 * 60 * 1000
  ELSE (2 ^ retry_count) * 1000

(* the condition of the except branch of __handle_message *)
RetryDue(max_retry, retried_count) ==
  max_retry < 0 \/ retried_count < max_retry

(* the mutant of RetryEnvelope below: the count is passed on as it is *)
RetryEnvelopeSameCount(body, retried_count) ==
  [body |-> body, exchange |-> "retry", key |-> "queue",
   count |-> retried_count, ttl |-> get_ttl(retried_count + 1)]

(* the arguments of basic_publish in __publish_to_retry_queue; the queue of *)
(* the consumer is the routing key                                          *)
RetryEnvelope(body, retried_count) ==
  [body |-> body, exchange |-> "retry", key |-> "queue",
   count |-> retried_count + 1, ttl |-> get_ttl(retried_count + 1)]

(* Consumer.__init__ with max_retry taken from limits; nothing delivered   *)
InitConsumer(limits) ==
  /\ maxRetry \in limits
  /\ dpc = [m \in Msgs |-> "idle"]
  /\ bodyOk = [m \in Msgs |-> TRUE]
  /\ hdr = [m \in Msgs |-> NoHeader]
  /\ rc = [m \in Msgs |-> 0]
  /\ res = [m \in Msgs |-> "none"]
  /\ raised = [m \in Msgs |-> FALSE]
  /\ ops = [m \in Msgs |-> <<>>]
  /\ sent = [m \in Msgs |-> NoEnvelope]
  /\ retryq = [m \in Msgs |-> NoEnvelope]
  /\ invoked = [m \in Msgs |-> 0]
  /\ fails = [m \in Msgs |-> 0]
  /\ pubs = [m \in Msgs |-> <<>>]
  /\ committed = [m \in Msgs |-> FALSE]

(* __on_message: one task per delivery *)
NewTask(m, h) ==
  /\ dpc' = [dpc EXCEPT ![m] = "new"]
  /\ hdr' = [hdr EXCEPT ![m] = h]
  /\ rc' = [rc EXCEPT ![m] = 0]
  /\ res' = [res EXCEPT ![m] = "none"]
  /\ raised' = [raised EXCEPT ![m] = FALSE]
  /\ ops' = [ops EXCEPT ![m] = <<>>]
  /\ sent' = [sent EXCEPT ![m] = NoEnvelope]
  /\ committed' = [committed EXCEPT ![m] = FALSE]

(* the broker delivers one of ms, messages published to the work exchange *)
Deliver(ms) ==
  \E m \in ms, h \in {NoHeader, BadHeader, Count(-1)}, ok \in BOOLEAN :
    /\ dpc[m] = "idle"
    /\ NewTask(m, h)
    /\ bodyOk' = [bodyOk EXCEPT ![m] = ok]
    /\ UNCHANGED <<maxRetry, retryq, invoked, fails, pubs>>

OnMessage == Deliver(Msgs)

(* a queue that receives one message only *)
OnMessageOne == Deliver({1})

(* the retry queue dead-letters an expired envelope to the consumer's      *)
(* queue, its properties kept; the task of the earlier delivery is over    *)
Redeliver ==
  \E m \in Msgs :
    /\ retryq[m] # NoEnvelope
    /\ dpc[m] = "done"
    /\ invoked[m] < MaxAttempts
    /\ NewTask(m, Count(retryq[m].count))
    /\ retryq' = [retryq EXCEPT ![m] = NoEnvelope]
    /\ UNCHANGED <<maxRetry, bodyOk, invoked, fails, pubs>>

(* a second message arrives while the handler of the first delivery of    *)
(* message 1 is running                                                    *)
OnMessageLater ==
  /\ dpc[1] = "handling"
  /\ invoked[1] = 1
  /\ Deliver({2})

(* the mutant of HandleBegin below: __on_message awaits __handle_message,  *)
(* a delivery is taken up when the one before it is over                   *)
HandleBeginSerial ==
  \E m \in Msgs :
    /\ dpc[m] = "new"
    /\ \A n \in Msgs \ {m} : dpc[n] \in {"idle", "new", "done", "dead"}
    /\ IF ~bodyOk[m] \/ hdr[m].kind = "bad"
         THEN /\ dpc' = [dpc EXCEPT ![m] = "dead"]
              /\ UNCHANGED <<rc, invoked>>
         ELSE /\ rc' = [rc EXCEPT ![m] = IF hdr[m].kind = "num" /\ hdr[m].val >= 0
                                           THEN hdr[m].val ELSE 0]
              /\ invoked' = [invoked EXCEPT ![m] = @ + 1]
              /\ dpc' = [dpc EXCEPT ![m] = "handling"]
    /\ UNCHANGED <<maxRetry, committed, bodyOk, hdr, res, raised, ops, sent, retryq, fails,
                   pubs>>

(* __handle_message up to the await of the handler: an exception of       *)
(* body.decode or of the comparison of the header ends the task before the *)
(* try statement                                                           *)
HandleBegin ==
  \E m \in Msgs :
    /\ dpc[m] = "new"
    /\ IF ~bodyOk[m] \/ hdr[m].kind = "bad"
         THEN /\ dpc' = [dpc EXCEPT ![m] = "dead"]
              /\ UNCHANGED <<rc, invoked>>
         ELSE /\ rc' = [rc EXCEPT ![m] = IF hdr[m].kind = "num" /\ hdr[m].val >= 0
                                           THEN hdr[m].val ELSE 0]
              /\ invoked' = [invoked EXCEPT ![m] = @ + 1]
              /\ dpc' = [dpc EXCEPT ![m] = "handling"]
    /\ UNCHANGED <<maxRetry, committed, bodyOk, hdr, res, raised, ops, sent, retryq, fails,
                   pubs>>

(* the finally clause: basic_client_ack is called and awaited; exc tells    *)
(* whether an exception is on its way out of the task                       *)
Finally(m, exc) ==
  /\ ops' = [ops EXCEPT ![m] = Append(@, "ack")]
  /\ raised' = [raised EXCEPT ![m] = exc]
  /\ dpc' = [dpc EXCEPT ![m] = "ack"]

(* wait_for returns: the handler returned in time; event.commit_events()   *)
(* finds no 'messages' in the context of a delivery and hands over nothing *)
HandlerReturns ==
  \E m \in Msgs :
    /\ dpc[m] = "handling"
    /\ res' = [res EXCEPT ![m] = "ok"]
    /\ committed' = [committed EXCEPT ![m] = TRUE]
    /\ Finally(m, FALSE)
    /\ UNCHANGED <<maxRetry, bodyOk, hdr, rc, sent, retryq, invoked, fails, pubs>>

(* the mutant of HandlerFails below: a failed delivery is rejected *)
HandlerFailsNack ==
  \E m \in Msgs, out \in {"raise", "timeout"} :
    /\ dpc[m] = "handling"
    /\ res' = [res EXCEPT ![m] = out]
    /\ fails' = [fails EXCEPT ![m] = @ + 1]
    /\ ops' = [ops EXCEPT ![m] = Append(@, "nack")]
    /\ dpc' = [dpc EXCEPT ![m] = "ack"]
    /\ UNCHANGED <<maxRetry, committed, bodyOk, hdr, rc, raised, sent, retryq, invoked, pubs>>

(* wait_for raises: the handler raised or timed out.  The except branch    *)
(* decides on the retry; self.mq_server.connection.channel() raises at     *)
(* once when the connection is None                                        *)
HandlerFails ==
  \E m \in Msgs, out \in {"raise", "timeout"} :
    /\ dpc[m] = "handling"
    /\ res' = [res EXCEPT ![m] = out]
    /\ fails' = [fails EXCEPT ![m] = @ + 1]
    /\ IF RetryDue(maxRetry, rc[m])
         THEN IF connection = NoConn
                THEN Finally(m, TRUE)
                ELSE /\ dpc' = [dpc EXCEPT ![m] = "retry_chan"]
                     /\ UNCHANGED <<ops, raised>>
         ELSE Finally(m, FALSE)
    /\ UNCHANGED <<maxRetry, committed, bodyOk, hdr, rc, sent, retryq, invoked, pubs>>

(* __publish_to_retry_queue: connection.channel() returns, basic_publish   *)
(* is called                                                               *)
RetryChannelOk ==
  \E m \in Msgs :
    /\ dpc[m] = "retry_chan"
    /\ sent' = [sent EXCEPT ![m] = RetryEnvelope(m, rc[m])]
    /\ pubs' = [pubs EXCEPT ![m] = Append(@, RetryEnvelope(m, rc[m]))]
    /\ dpc' = [dpc EXCEPT ![m] = "retry_pub"]
    /\ UNCHANGED <<maxRetry, committed, bodyOk, hdr, rc, res, raised, ops, retryq, invoked,
                   fails>>

(* basic_publish returns: the envelope is in the retry queue; channel.close() *)
(* is awaited                                                              *)
RetryPublishOk ==
  \E m \in Msgs :
    /\ dpc[m] = "retry_pub"
    /\ retryq' = [retryq EXCEPT ![m] = sent[m]]
    /\ dpc' = [dpc EXCEPT ![m] = "retry_close"]
    /\ UNCHANGED <<maxRetry, committed, bodyOk, hdr, rc, res, raised, ops, sent, invoked,
                   fails, pubs>>

(* channel.close() returns; the except branch logs and ends *)
RetryCloseOk ==
  \E m \in Msgs :
    /\ dpc[m] = "retry_close"
    /\ Finally(m, FALSE)
    /\ UNCHANGED <<maxRetry, committed, bodyOk, hdr, rc, res, sent, retryq, invoked, fails,
                   pubs>>

(* an awaited call of __publish_to_retry_queue raises: the exception       *)
(* leaves the except branch                                                *)
RetryFail ==
  \E m \in Msgs :
    /\ dpc[m] \in {"retry_chan", "retry_pub", "retry_close"}
    /\ Finally(m, TRUE)
    /\ UNCHANGED <<maxRetry, committed, bodyOk, hdr, rc, res, sent, retryq, invoked, fails,
                   pubs>>

(* basic_client_ack returns or raises; the task is over *)
AckDone ==
  \E m \in Msgs, ok \in BOOLEAN :
    /\ dpc[m] = "ack"
    /\ dpc' = [dpc EXCEPT ![m] = "done"]
    /\ raised' = [raised EXCEPT ![m] = @ \/ ~ok]
    /\ UNCHANGED <<maxRetry, committed, bodyOk, hdr, rc, res, ops, sent, retryq, invoked,
                   fails, pubs>>

(* ======================================================================= *)
(*              the outbox of a unit of work and the publisher              *)
(* ======================================================================= *)

MaxPublish == 2           \* calls of publish_message in one run

Reqs == {1, 2}            \* the HTTP requests
Servers == {"default", "other"}   \* the names in settings MQ_SERVERS

VARIABLES
  debug,          \* settings DEBUG
  ignoreSet,      \* settings IGNORE_CONTEXT_WHEN_DELIVERY is configured
  hpc,            \* request -> "idle" | "handler" | "done"
  outbox,         \* request -> the 'messages' list of the context made for it
  hfailed,        \* request -> its handler raised
  hcommitted,     \* request -> event.commit_events() was called for it
  seq,            \* calls of publish_message that got past its first lines
  puts,           \* server.publish coroutines scheduled by commit_events, in order
  queue,          \* server -> its MqServer.publishing_messages
  refused         \* the calls of publish_message that raised

oVars == <<debug, ignoreSet, hpc, outbox, hfailed, hcommitted, seq, puts, queue,
          refused>>

(* what publish_message hands on: the unit of work it was called in, its   *)
(* send_after_done argument and the server its mq_server argument names    *)
Message(id, kind, unit, deferred, server) ==
  [id |-> id, kind |-> kind, unit |-> unit, deferred |-> deferred,
   server |-> server]

(* settings as given, no request yet, nothing to publish *)
InitOutbox(debugs, ignores) ==
  /\ debug \in debugs
  /\ ignoreSet \in ignores
  /\ hpc = [q \in Reqs |-> "idle"]
  /\ outbox = [q \in Reqs |-> <<>>]
  /\ hfailed = [q \in Reqs |-> FALSE]
  /\ hcommitted = [q \in Reqs |-> FALSE]
  /\ seq = 0
  /\ puts = <<>>
  /\ queue = [s \in Servers |-> <<>>]
  /\ refused = {}

(* the request middleware init_context, then the handler starts *)
RequestBegin ==
  \E q \in Reqs :
    /\ hpc[q] = "idle"
    /\ hpc' = [hpc EXCEPT ![q] = "handler"]
    /\ outbox' = [outbox EXCEPT ![q] = <<>>]
    /\ UNCHANGED <<debug, ignoreSet, hfailed, hcommitted, seq, puts, queue,
                   refused>>

(* publish_message called by the handler of a request.  Without the        *)
(* setting, settings.get raises in the first loop; the handler then goes   *)
(* on or fails, as it does without the call.                               *)
RequestPublish ==
  \E q \in Reqs, deferred \in BOOLEAN, s \in Servers :
    /\ hpc[q] = "handler"
    /\ ignoreSet
    /\ seq < MaxPublish
    /\ seq' = seq + 1
    /\ IF deferred
         THEN /\ outbox' = [outbox EXCEPT
                              ![q] = Append(@, Message(seq + 1, "http", q, TRUE, s))]
              /\ UNCHANGED queue
         ELSE /\ queue' = [queue EXCEPT
                             ![s] = Append(@, Message(seq + 1, "http", q, FALSE, s))]
              /\ UNCHANGED outbox
    /\ UNCHANGED <<debug, ignoreSet, hpc, hfailed, hcommitted, puts, refused>>

(* the mutant of RequestPublishUnknown below: the server is looked up      *)
(* only when the message is sent, a deferred message is stored first       *)
RequestPublishUnknownStored ==
  \E q \in Reqs, deferred \in BOOLEAN :
    /\ hpc[q] = "handler"
    /\ ignoreSet
    /\ seq < MaxPublish
    /\ seq' = seq + 1
    /\ IF deferred
         THEN /\ outbox' = [outbox EXCEPT
                              ![q] = Append(@, Message(seq + 1, "http", q, TRUE,
                                                       "missing"))]
              /\ UNCHANGED refused
         ELSE /\ refused' = refused
                              \cup {Message(seq + 1, "http", q, FALSE, "missing")}
              /\ UNCHANGED outbox
    /\ UNCHANGED <<debug, ignoreSet, hpc, hfailed, hcommitted, puts, queue>>

(* publish_message called by the handler of a request with an mq_server    *)
(* name that is not in the registry: __get_mq_server raises before the     *)
(* message is stored or sent                                               *)
RequestPublishUnknown ==
  \E q \in Reqs, deferred \in BOOLEAN :
    /\ hpc[q] = "handler"
    /\ ignoreSet
    /\ seq < MaxPublish
    /\ seq' = seq + 1
    /\ refused' = refused \cup {Message(seq + 1, "http", q, deferred, "missing")}
    /\ UNCHANGED <<debug, ignoreSet, hpc, outbox, hfailed, hcommitted, puts,
                   queue>>

(* start_mq_servers comes to handlers registered for a server name that is *)
(* not in the registry: it raises, and the listener ends there             *)
SubscribeUnknown ==
  /\ \A msg \in refused : msg.kind # "subscribe"
  /\ refused' = refused \cup {Message(0, "subscribe", 0, FALSE, "missing")}
  /\ UNCHANGED <<debug, ignoreSet, hpc, outbox, hfailed, hcommitted, seq, puts,
                 queue>>

(* publish_message called by a task in which no context was set (a        *)
(* startup hook, a background task): context_var.get() is the default      *)
(* None and None.items() raises in the first statement, whatever           *)
(* send_after_done is.  Nothing is stored and nothing is handed over.      *)
PublishNoContext ==
  \E deferred \in BOOLEAN, s \in Servers :
    /\ seq < MaxPublish
    /\ seq' = seq + 1
    /\ refused' = refused \cup {Message(seq + 1, "none", 0, deferred, s)}
    /\ UNCHANGED <<debug, ignoreSet, hpc, outbox, hfailed, hcommitted, puts,
                   queue>>

(* event.commit_events for the context of request q *)
commit_events(q) ==
  /\ puts' = puts \o outbox[q]
  /\ hcommitted' = [hcommitted EXCEPT ![q] = TRUE]

(* the response middleware reset_context, given response.exception; the   *)
(* list of the context is left as it is, context_var no longer refers to   *)
(* it                                                                      *)
reset_context(q, exception) ==
  /\ IF ~exception THEN commit_events(q) ELSE UNCHANGED <<puts, hcommitted>>
  /\ hpc' = [hpc EXCEPT ![q] = "done"]
  /\ UNCHANGED outbox

(* the handler of a request calls event.commit_events() itself, once *)
RequestCommits ==
  \E q \in Reqs :
    /\ hpc[q] = "handler"
    /\ ~hcommitted[q]
    /\ commit_events(q)
    /\ UNCHANGED <<debug, ignoreSet, hpc, outbox, hfailed, seq, queue, refused>>

(* the handler returns a response *)
RequestReturns ==
  \E q \in Reqs :
    /\ hpc[q] = "handler"
    /\ reset_context(q, FALSE)
    /\ UNCHANGED <<debug, ignoreSet, hfailed, seq, queue, refused>>

(* the handler raises: NotFound with a text matching '.*url.*not found',   *)
(* or another exception.  With DEBUG, handle_404_redirect answers the      *)
(* first with a redirect, which has no exception attribute; otherwise      *)
(* handle_exception sets response.exception.                               *)
RequestFails ==
  \E q \in Reqs, exc \in {"NotFound", "Exception"} :
    /\ hpc[q] = "handler"
    /\ hfailed' = [hfailed EXCEPT ![q] = TRUE]
    /\ reset_context(q, ~(debug /\ exc = "NotFound"))
    /\ UNCHANGED <<debug, ignoreSet, seq, queue, refused>>

(* the mutant of PublishRuns below: the put goes to the default server *)
PublishRunsDefault ==
  /\ puts # <<>>
  /\ queue' = [queue EXCEPT !["default"] = Append(@, Head(puts))]
  /\ puts' = Tail(puts)
  /\ UNCHANGED <<debug, ignoreSet, hpc, outbox, hfailed, hcommitted, seq, refused>>

(* a scheduled server.publish runs: publishing_messages.put of the server  *)
(* the message was published for                                           *)
PublishRuns ==
  /\ puts # <<>>
  /\ queue' = [queue EXCEPT ![Head(puts).server] = Append(@, Head(puts))]
  /\ puts' = Tail(puts)
  /\ UNCHANGED <<debug, ignoreSet, hpc, outbox, hfailed, hcommitted, seq, refused>>

(* publish_message called by the handler of a delivery with                *)
(* send_after_done=False; with send_after_done=True it raises KeyError,    *)
(* the context set by __handle_message has no 'messages'                   *)
HandlerPublishes ==
  \E m \in Msgs, s \in Servers :
    /\ dpc[m] = "handling"
    /\ ignoreSet
    /\ seq < MaxPublish
    /\ seq' = seq + 1
    /\ queue' = [queue EXCEPT ![s] = Append(@, Message(seq + 1, "mq", m, FALSE, s))]
    /\ UNCHANGED <<debug, ignoreSet, hpc, outbox, hfailed, hcommitted, puts,
                   refused>>

(* publish_message called with send_after_done=True by the handler of a   *)
(* delivery, while wait_for waits for it or, for a handler run by          *)
(* run_in_executor, after wait_for has given it up.  The call raises:      *)
(* settings.get for a missing IGNORE_CONTEXT_WHEN_DELIVERY, else KeyError, *)
(* the context set by __handle_message has no 'messages'.  Nothing is      *)
(* stored.                                                                 *)
HandlerDefers ==
  \E m \in Msgs, s \in Servers :
    /\ dpc[m] = "handling" \/ res[m] = "timeout"
    /\ seq < MaxPublish
    /\ seq' = seq + 1
    /\ refused' = refused \cup {Message(seq + 1, "mq", m, TRUE, s)}
    /\ UNCHANGED <<debug, ignoreSet, hpc, outbox, hfailed, hcommitted, puts,
                   queue>>

(* ======================================================================= *)
(*                     MqServer: publish and the publish loop              *)
(* ======================================================================= *)

NoItem == Message(0, "", 0, FALSE, "")   \* the loop holds no item

VARIABLES
  lpc,            \* __publish_loop: "idle" (not started, at the state test or
                  \* asleep), "get" (suspended in get()), "publishing"
  inflight,       \* the item whose basic_publish the loop awaits
  requeues,       \* publishing_messages.put tasks created by the loop, in order
  published,      \* ids of the items whose basic_publish returned, in order
  brokerFailed,   \* a basic_publish of the loop raised or timed out
  ahead,          \* id -> items queued when it last failed and not attempted since
  waited          \* ids of the items that failed while others were queued

pVars == <<lpc, inflight, requeues, published, brokerFailed, ahead, waited>>

Ids == 1..MaxPublish
Outbound == queue["default"]   \* publishing_messages of the modelled server
IdsOf(msgs) == {msgs[i].id : i \in 1..Len(msgs)}

(* MqServer.__init__: an empty queue; no loop task yet *)
InitLoop ==
  /\ lpc = "idle"
  /\ inflight = NoItem
  /\ requeues = <<>>
  /\ published = <<>>
  /\ brokerFailed = FALSE
  /\ ahead = [i \in Ids |-> {}]
  /\ waited = {}

(* the mutant of Publish below: publish() refuses while not connected *)
PublishWhenConnected ==
  \E item \in {Message(seq + 1, "call", 0, FALSE, "default")} :
    /\ seq < MaxPublish
    /\ seq' = seq + 1
    /\ IF state \in {"CONNECTED", "RUNNING"}
         THEN queue' = [queue EXCEPT !["default"] = Append(@, item)]
              /\ UNCHANGED refused
         ELSE refused' = refused \cup {item} /\ UNCHANGED queue
    /\ UNCHANGED <<debug, ignoreSet, hpc, outbox, hfailed, hcommitted, puts>>
    /\ UNCHANGED <<mqVars, dVars, pVars>>

(* MqServer.publish called by any task: put on the unbounded queue *)
Publish ==
  \E item \in {Message(seq + 1, "call", 0, FALSE, "default")} :
    /\ seq < MaxPublish
    /\ seq' = seq + 1
    /\ queue' = [queue EXCEPT !["default"] = Append(@, item)]
    /\ UNCHANGED <<debug, ignoreSet, hpc, outbox, hfailed, hcommitted, puts,
                   refused>>
    /\ UNCHANGED <<mqVars, dVars, pVars>>

(* the loop has taken item from the queue and evaluates                    *)
(* self.channel.basic_publish(...): AttributeError when the channel is     *)
(* None, the except branch then creates the put task and the loop goes     *)
(* round; else the broker operation is awaited                             *)
TryPublish(item) ==
  /\ queue' = [queue EXCEPT !["default"] = Tail(@)]
  /\ ahead' = [i \in Ids |->
                IF i = item.id /\ channel = NoConn THEN IdsOf(Tail(Outbound))
                ELSE ahead[i] \ {item.id}]
  /\ IF channel = NoConn
       THEN /\ requeues' = Append(requeues, item)
            /\ waited' = IF Tail(Outbound) # <<>> THEN waited \cup {item.id}
                          ELSE waited
            /\ lpc' = "idle"
            /\ UNCHANGED inflight
       ELSE /\ inflight' = item
            /\ lpc' = "publishing"
            /\ UNCHANGED <<requeues, waited>>
  /\ UNCHANGED <<published, brokerFailed>>
  /\ UNCHANGED <<debug, ignoreSet, hpc, outbox, hfailed, hcommitted, seq, puts,
                 refused>>
  /\ UNCHANGED <<mqVars, dVars>>

(* the loop, started by start(), finds the state CONNECTED or RUNNING and  *)
(* calls get(): it takes the head of the queue, or is suspended when the   *)
(* queue is empty.  (In another state it sleeps and tests again.)          *)
LoopEnter ==
  /\ ploops > 0
  /\ lpc = "idle"
  /\ state \in {"CONNECTED", "RUNNING"}
  /\ IF Outbound # <<>>
       THEN TryPublish(Head(Outbound))
       ELSE /\ lpc' = "get"
            /\ UNCHANGED <<inflight, requeues, published, brokerFailed, ahead,
                           waited>>
            /\ UNCHANGED <<mqVars, dVars, oVars>>

(* get() returns to the suspended loop once the queue holds an item; the   *)
(* state is not looked at again                                            *)
LoopGetWakes ==
  /\ lpc = "get"
  /\ Outbound # <<>>
  /\ TryPublish(Head(Outbound))

(* basic_publish returns within the 3 seconds *)
PublishOk ==
  /\ lpc = "publishing"
  /\ published' = Append(published, inflight.id)
  /\ inflight' = NoItem
  /\ lpc' = "idle"
  /\ UNCHANGED <<requeues, brokerFailed, ahead, waited>>
  /\ UNCHANGED <<mqVars, dVars, oVars>>

(* the mutant of PublishFail below: the failed item is dropped *)
PublishFailDrop ==
  /\ lpc = "publishing"
  /\ brokerFailed' = TRUE
  /\ inflight' = NoItem
  /\ lpc' = "idle"
  /\ UNCHANGED <<requeues, published, ahead, waited>>
  /\ UNCHANGED <<mqVars, dVars, oVars>>

(* basic_publish raises, or wait_for gives it up after 3 seconds: the      *)
(* except branch creates the task that puts the item back                  *)
PublishFail ==
  /\ lpc = "publishing"
  /\ brokerFailed' = TRUE
  /\ requeues' = Append(requeues, inflight)
  /\ ahead' = [ahead EXCEPT ![inflight.id] = IdsOf(Outbound)]
  /\ waited' = IF Outbound # <<>> THEN waited \cup {inflight.id} ELSE waited
  /\ inflight' = NoItem
  /\ lpc' = "idle"
  /\ UNCHANGED published
  /\ UNCHANGED <<mqVars, dVars, oVars>>

(* the mutant of RequeueRuns below: the item goes back to the head *)
RequeueRunsHead ==
  /\ requeues # <<>>
  /\ queue' = [queue EXCEPT !["default"] = <<Head(requeues)>> \o @]
  /\ requeues' = Tail(requeues)
  /\ UNCHANGED <<lpc, inflight, published, brokerFailed, ahead, waited>>
  /\ UNCHANGED <<debug, ignoreSet, hpc, outbox, hfailed, hcommitted, seq, puts,
                 refused>>
  /\ UNCHANGED <<mqVars, dVars>>

(* a put task created by the loop runs: the item is at the tail again *)
RequeueRuns ==
  /\ requeues # <<>>
  /\ queue' = [queue EXCEPT !["default"] = Append(@, Head(requeues))]
  /\ requeues' = Tail(requeues)
  /\ UNCHANGED <<lpc, inflight, published, brokerFailed, ahead, waited>>
  /\ UNCHANGED <<debug, ignoreSet, hpc, outbox, hfailed, hcommitted, seq, puts,
                 refused>>
  /\ UNCHANGED <<mqVars, dVars>>

(* ======================================================================= *)
(*          the envelope: what publish_message writes and what the          *)
(*                     consumer reads back from it                          *)
(* ======================================================================= *)

(* a dict is the set of its <<key, value>> pairs; '' and None are 0 *)
Keys(d) == {p[1] : p \in d}
Get(d, k, default) ==
  IF k \in Keys(d) THEN (CHOOSE p \in d : p[1] = k)[2] ELSE default

Traces == {1, 2}          \* the values of the X-TRACE-ID request header
Custom == {"tenant_id"}   \* a context field the application sets
ContextFields ==
  {"trace_id", "messages", "request_at", "response_shape"} \cup Custom

(* the name of the header of context field k: 'X-' + k.upper() with '_'    *)
(* replaced by '-'                                                          *)
HeaderOf(k) ==
  CASE k = "trace_id" -> "X-TRACE-ID"
    [] k = "tenant_id" -> "X-TENANT-ID"
    [] k = "request_at" -> "X-REQUEST-AT"
    [] k = "response_shape" -> "X-RESPONSE-SHAPE"
    [] OTHER -> "X-MESSAGES"

VARIABLES
  allow,          \* settings CONTEXT_WHEN_DELIVERY
  ignore,         \* settings IGNORE_CONTEXT_WHEN_DELIVERY
  ctx,            \* the context of the publishing unit of work ({}: none)
  body,           \* the JSON object publish_message built last
  origin,         \* the trace id of the context body was built in
  cctx            \* the context __handle_message built from body ({}: none)

eVars == <<allow, ignore, ctx, body, origin, cctx>>

(* the top-level keys of a message body and their values *)
Body(keys, message, context, headers) ==
  [keys |-> keys, message |-> message, context |-> context,
   headers |-> headers]
NoBody == Body({}, 0, {}, {})

InitEnvelope(allows, ignores) ==
  /\ allow \in allows
  /\ ignore \in ignores
  /\ ctx = {}
  /\ body = NoBody
  /\ origin = 0
  /\ cctx = {}

(* the request middleware init_context: the trace id of the request        *)
(* header, an empty messages list, request_at, DEFAULT_CONTEXT; the         *)
(* application may add fields of its own                                    *)
init_context ==
  \E t \in Traces, custom \in SUBSET Custom :
    /\ ctx' = {<<"trace_id", t>>, <<"messages", 0>>, <<"request_at", 1>>,
               <<"response_shape", 1>>} \cup {<<k, 1>> : k \in custom}
    /\ UNCHANGED <<allow, ignore, body, origin, cctx>>

(* publish_message, lines 41-49: every field of the active context whose   *)
(* name is not in IGNORE_CONTEXT_WHEN_DELIVERY goes under 'context', the    *)
(* event under 'message'                                                    *)
ctx_delivery(context) ==
  Body({"message", "context"}, 1, {p \in context : p[1] \notin ignore}, {})

(* publish_message in an active context; the body reaches the consumer's   *)
(* queue as it is                                                           *)
PublishEnvelope ==
  /\ ctx # {}
  /\ body = NoBody
  /\ cctx = {}
  /\ body' = ctx_delivery(ctx)
  /\ origin' = Get(ctx, "trace_id", 0)
  /\ UNCHANGED <<allow, ignore, ctx, cctx>>

(* __handle_message, lines 56-64: 'headers' of the body, default {}; the   *)
(* trace id is its 'X-TRACE-ID', default ''; one field per name in          *)
(* CONTEXT_WHEN_DELIVERY                                                    *)
ContextFrom(data) ==
  LET headers == IF "headers" \in data.keys THEN data.headers ELSE {}
  IN  {<<"trace_id", Get(headers, "X-TRACE-ID", 0)>>}
        \cup {<<k, Get(headers, HeaderOf(k), 0)>> : k \in allow}

HandleEnvelope ==
  /\ body # NoBody
  /\ cctx' = ContextFrom(body)
  /\ body' = NoBody
  /\ UNCHANGED <<allow, ignore, ctx, origin>>

(* the finally of __handle_message: context_var.set(None) *)
HandleEnvelopeDone ==
  /\ cctx # {}
  /\ cctx' = {}
  /\ UNCHANGED <<allow, ignore, ctx, body, origin>>

(* ======================================================================= *)
(*             Consumer: the queue it declares, and get_ttl                *)
(* ======================================================================= *)

MaxRuns == 3              \* runs of Consumer.start() in one run of the server
MaxCount == 20            \* largest retry count get_ttl is called with

Cons == {1, 2}            \* the Consumer objects MqServer.subscribe builds
Handlers ==               \* the handler functions: __module__, __qualname__
  <<[module |-> <<"app", "events">>, qualname |-> <<"on_created">>],
    [module |-> <<"app">>, qualname |-> <<"Audit", "on_created">>]>>
HandlerIds == 1..Len(Handlers)

(* a string that is built from parts is the sequence of its parts, the     *)
(* separator between them                                                   *)
Joined(parts, separator) ==
  [i \in 1..(2 * Len(parts) - 1) |->
     IF i % 2 = 1 THEN parts[(i + 1) \div 2] ELSE separator]

(* utils.meth_str: module + '.' + qualname, every '.' replaced by the      *)
(* separator                                                                *)
meth_str(meth, separator) == Joined(meth.module \o meth.qualname, separator)

(* the event names consumers subscribe to *)
RoutingKeys == {"created", "deleted"}

NoConsumer ==
  [made |-> FALSE, _queue |-> <<>>, queue |-> <<>>, subscribe |-> FALSE,
   handler |-> 0, routing_key |-> ""]

VARIABLES
  built,          \* consumer -> the Consumer object (made: it exists)
  declared,       \* the queue_declare calls made by Consumer.start, in order
  uuids,          \* uuid.uuid4() values drawn so far
  arg,            \* the retry_count get_ttl was last called with
  ttl             \* what it returned

nVars == <<built, declared, uuids, arg, ttl>>

InitNames ==
  /\ built = [c \in Cons |-> NoConsumer]
  /\ declared = <<>>
  /\ uuids = 0
  /\ arg = 0
  /\ ttl = 0

(* Consumer.__init__ as MqServer.subscribe calls it:                       *)
(* Consumer(queue=meth_str(handler), routing_key=..., subscribe=...)       *)
Consumer(h, routing_key, subscribe) ==
  [made |-> TRUE,
   _queue |-> meth_str(Handlers[h], "."),
   queue |-> meth_str(Handlers[h], "."),
   subscribe |-> subscribe, handler |-> h,
   routing_key |-> routing_key]

(* MqServer.subscribe, lines 191-199 *)
NewConsumer ==
  \E c \in Cons, h \in HandlerIds, subscribe \in BOOLEAN, routing_key \in RoutingKeys :
    /\ ~built[c].made
    /\ built' = [built EXCEPT ![c] = Consumer(h, routing_key, subscribe)]
    /\ UNCHANGED <<declared, uuids, arg, ttl>>

(* uuid.uuid4().hex: a value that was not drawn before *)
uuid4 == <<"uuid", uuids + 1>>

(* what queue_declare is called with *)
Declare(c, name, exclusive) ==
  /\ built' = [built EXCEPT ![c].queue = name]
  /\ declared' = Append(declared,
                        [consumer |-> c, handler |-> built[c].handler,
                         subscribe |-> built[c].subscribe, queue |-> name,
                         exclusive |-> exclusive,
                         routing_key |-> built[c].routing_key])

(* the mutant of ConsumerStart below: the suffix is drawn once, when the   *)
(* consumer starts for the first time                                       *)
ConsumerStartKeepsName ==
  \E c \in Cons :
    /\ built[c].made
    /\ Len(declared) < MaxRuns
    /\ IF built[c].subscribe /\ built[c].queue = built[c]._queue
         THEN /\ Declare(c, built[c]._queue \o <<"_">> \o uuid4, TRUE)
              /\ uuids' = uuids + 1
         ELSE /\ Declare(c, built[c].queue, built[c].subscribe)
              /\ UNCHANGED uuids
    /\ UNCHANGED <<arg, ttl>>

(* the mutant of ConsumerStart below: every queue gets a suffix *)
ConsumerStartSuffixed ==
  \E c \in Cons :
    /\ built[c].made
    /\ Len(declared) < MaxRuns
    /\ Declare(c, built[c]._queue \o <<"_">> \o uuid4, built[c].subscribe)
    /\ uuids' = uuids + 1
    /\ UNCHANGED <<arg, ttl>>

(* Consumer.start, run by __start_consumers after every connect and by     *)
(* subscribe: the queue name is computed anew, _queue with a new uuid4 for *)
(* subscribe=True, _queue itself otherwise; the queue is declared          *)
(* exclusive for subscribe=True, durable otherwise                         *)
ConsumerStart ==
  \E c \in Cons :
    /\ built[c].made
    /\ Len(declared) < MaxRuns
    /\ IF built[c].subscribe
         THEN /\ Declare(c, built[c]._queue \o <<"_">> \o uuid4, TRUE)
              /\ uuids' = uuids + 1
         ELSE /\ Declare(c, built[c]._queue, FALSE)
              /\ UNCHANGED uuids
    /\ UNCHANGED <<arg, ttl>>

(* a call of Consumer.get_ttl *)
GetTtl ==
  \E n \in (0 - MaxCount)..MaxCount :
    /\ arg' = n
    /\ ttl' = get_ttl(n)
    /\ UNCHANGED <<built, declared, uuids>>

(* ======================================================================= *)
(*                     a second MqServer of the process                    *)
(* ======================================================================= *)

(* The MqServer registered as "other": its own attributes, followed at the *)
(* grain of its state attribute.  Its publishing_messages is               *)
(* queue["other"].                                                         *)
VARIABLE peer

Peer(st, conn, chan, cons) ==
  [state |-> st, connection |-> conn, channel |-> chan, consumers |-> cons]

(* MqServer.__init__ *)
InitPeer == peer = Peer("INIT", NoConn, NoConn, {})

(* __connect_to_broker of the peer passes its state test *)
PeerConnectBegin ==
  /\ peer.state \in {"INIT", "CLOSED"}
  /\ peer' = [peer EXCEPT !.state = "CONNECTING"]
  /\ UNCHANGED <<connVars, queue>>

(* its connection and channel are opened, its consumers started *)
PeerConnected ==
  /\ peer.state = "CONNECTING"
  /\ peer' = [peer EXCEPT !.state = "RUNNING", !.connection = 1, !.channel = 1]
  /\ UNCHANGED <<connVars, queue>>

(* the mutant of PeerDispose below: state is an attribute of the class *)
PeerDisposeShared ==
  /\ peer.state \in {"CONNECTING", "RUNNING"}
  /\ peer' = [peer EXCEPT !.state = "CLOSED", !.connection = NoConn,
                          !.channel = NoConn]
  /\ state' = "CLOSED"
  /\ UNCHANGED <<connection, channel, conns, signalled, ctasks, etasks, timers>>
  /\ UNCHANGED queue

(* dispose() of the peer, after a failed connect or an error signal *)
PeerDispose ==
  /\ peer.state \in {"CONNECTING", "RUNNING"}
  /\ peer' = [peer EXCEPT !.state = "CLOSED", !.connection = NoConn,
                          !.channel = NoConn]
  /\ UNCHANGED connVars
  /\ UNCHANGED queue

(* subscribe() of the peer *)
PeerSubscribe ==
  /\ peer.consumers = {}
  /\ peer' = [peer EXCEPT !.consumers = {1}]
  /\ UNCHANGED <<connVars, queue>>

(* the publish loop of the peer publishes the head of its queue *)
PeerPublishOk ==
  /\ peer.state = "RUNNING"
  /\ queue["other"] # <<>>
  /\ queue' = [queue EXCEPT !["other"] = Tail(@)]
  /\ UNCHANGED <<connVars, peer>>

(* ======================================================================= *)
(*        Consumer: the context of the task of each delivery               *)
(* ======================================================================= *)

Tenants == {1, 2}         \* the values of the X-TENANT-ID header

VARIABLES
  tpc,            \* delivery -> where the task of __handle_message is
  tdata,          \* delivery -> the JSON object of its body
  tvar,           \* delivery -> context_var in the context of its task ({}: None)
  hvar,           \* delivery -> context_var in the context of its handler's future
  seen,           \* delivery -> what the handler read from context_var
  read            \* delivery -> what commit_events read from context_var

tVars == <<tpc, tdata, tvar, hvar, seen, read>>

InitTasks ==
  /\ tpc = [m \in Msgs |-> "idle"]
  /\ tdata = [m \in Msgs |-> NoBody]
  /\ tvar = [m \in Msgs |-> {}]
  /\ hvar = [m \in Msgs |-> {}]
  /\ seen = [m \in Msgs |-> {}]
  /\ read = [m \in Msgs |-> {}]

(* the mutant of SetContext below: the context is a module global *)
SetContextShared(var, m, value) == [n \in Msgs |-> value]

(* context_var.set(value) in the task of delivery m: a ContextVar is set   *)
(* in the context of the running task only                                 *)
SetContext(var, m, value) == [var EXCEPT ![m] = value]

(* __on_message: loop.create_task copies the context of the callback, in   *)
(* which context_var has its default None                                  *)
OnMessageTask ==
  \E m \in Msgs, t \in Traces, x \in SUBSET Tenants :
    /\ tpc[m] = "idle"
    /\ Cardinality(x) <= 1
    /\ tdata' = [tdata EXCEPT
                   ![m] = Body({"payload", "headers"}, m, {},
                               {<<"X-TRACE-ID", t>>} \cup {<<"X-TENANT-ID", v>> : v \in x})]
    /\ tvar' = [tvar EXCEPT ![m] = {}]
    /\ tpc' = [tpc EXCEPT ![m] = "new"]
    /\ UNCHANGED <<hvar, seen, read>>

(* __handle_message, lines 52-77: the context is built from the headers    *)
(* and set; ensure_future (or copy_context) gives the handler a copy of    *)
(* the task's context; wait_for is awaited                                 *)
TaskBegin ==
  \E m \in Msgs :
    /\ tpc[m] = "new"
    /\ tvar' = SetContext(tvar, m, ContextFrom(tdata[m]))
    /\ hvar' = [hvar EXCEPT ![m] = tvar'[m]]
    /\ tpc' = [tpc EXCEPT ![m] = "handling"]
    /\ UNCHANGED <<tdata, seen, read>>

(* the handler reads context_var.get() *)
HandlerReads ==
  \E m \in Msgs :
    /\ tpc[m] = "handling"
    /\ seen' = [seen EXCEPT ![m] = hvar[m]]
    /\ UNCHANGED <<tpc, tdata, tvar, hvar, read>>

(* wait_for returns or raises; when it returned, commit_events() reads     *)
(* context_var.get() in the task; basic_client_ack is awaited              *)
HandlerEnds ==
  \E m \in Msgs, ok \in BOOLEAN :
    /\ tpc[m] = "handling"
    /\ read' = [read EXCEPT ![m] = IF ok THEN tvar[m] ELSE @]
    /\ tpc' = [tpc EXCEPT ![m] = "acking"]
    /\ UNCHANGED <<tdata, tvar, hvar, seen>>

(* the end of the finally clause: context_var.set(None) *)
TaskEnds ==
  \E m \in Msgs :
    /\ tpc[m] = "acking"
    /\ tvar' = SetContext(tvar, m, {})
    /\ tpc' = [tpc EXCEPT ![m] = "done"]
    /\ UNCHANGED <<tdata, hvar, seen, read>>

(* ======================================================================= *)
(*          the broker: consumer queues, the retry queue, its clock        *)
(* ======================================================================= *)

VARIABLES
  bqueues,        \* the consumer queues that exist: [name, exclusive]
  binds,          \* their bindings to the work exchange: [queue, routing_key]
  running,        \* consumer -> it consumes its queue on the open connection
  inq,            \* the messages waiting in consumer queues: [queue, body, count]
  rq,             \* the retry queue, oldest first; age in seconds
  events,         \* the bodies published to the work exchange
  got,            \* the handler invocations: [consumer, body, count]
  failed          \* the invocations that raised or timed out

bVars == <<bqueues, binds, running, inq, rq, events, got, failed>>

InitBroker ==
  /\ bqueues = {}
  /\ binds = {}
  /\ running = [c \in Cons |-> FALSE]
  /\ inq = {}
  /\ rq = <<>>
  /\ events = {}
  /\ got = {}
  /\ failed = {}

(* Consumer.start on an open connection: the queue is declared, bound to   *)
(* the work exchange with the consumer's routing key, and consumed         *)
BrokerStart ==
  /\ ConsumerStart
  /\ LET d == declared'[Len(declared')]
     IN  /\ ~running[d.consumer]
         /\ running' = [running EXCEPT ![d.consumer] = TRUE]
         /\ bqueues' = bqueues \cup {[name |-> d.queue, exclusive |-> d.exclusive]}
         /\ binds' = binds \cup {[queue |-> d.queue, routing_key |-> d.routing_key]}
  /\ UNCHANGED <<inq, rq, events, got, failed>>

(* the connection is lost: nothing is consumed until __start_consumers     *)
(* runs again, and the broker deletes the exclusive queues of the          *)
(* connection; durable queues and the retry queue stay                     *)
ConnectionLost ==
  /\ \E c \in Cons : running[c]
  /\ running' = [c \in Cons |-> FALSE]
  /\ LET gone == {q.name : q \in {x \in bqueues : x.exclusive}}
     IN  /\ bqueues' = {q \in bqueues : ~q.exclusive}
         /\ binds' = {b \in binds : b.queue \notin gone}
         /\ inq' = {x \in inq : x.queue \notin gone}
  /\ UNCHANGED <<rq, events, got, failed, built, declared, uuids, arg, ttl>>

(* an event reaches the work exchange: a copy goes to every queue bound    *)
(* with its routing key                                                    *)
PublishEvent(ms) ==
  \E m \in ms \ events, k \in RoutingKeys :
    /\ events' = events \cup {m}
    /\ inq' = inq \cup {[queue |-> b.queue, body |-> m, count |-> 0] :
                          b \in {x \in binds : x.routing_key = k}}
    /\ UNCHANGED <<bqueues, binds, running, rq, got, failed, built, declared, uuids,
                   arg, ttl>>

(* __publish_to_retry_queue: the envelope goes to the retry exchange with  *)
(* the consumer's queue name as routing key, expiration                    *)
(* get_ttl(retried_count + 1) and x-retry-count retried_count + 1          *)
Retry(c, content, retried_count) ==
  [body |-> content, key |-> built[c].queue, count |-> retried_count + 1,
   ttl |-> get_ttl(retried_count + 1), age |-> 0, by |-> c]

(* a delivery to consumer c and its handling: the handler returns, or it   *)
(* fails and the retry envelope, if one is due, reaches the retry queue    *)
(* or its publication fails                                                *)
Consume ==
  \E c \in Cons, x \in inq, out \in {"ok", "fail", "unsent"} :
    /\ running[c]
    /\ x.queue = built[c].queue
    /\ inq' = inq \ {x}
    /\ got' = got \cup {[consumer |-> c, body |-> x.body, count |-> x.count]}
    /\ failed' = IF out = "ok" THEN failed
                 ELSE failed \cup {[consumer |-> c, body |-> x.body, count |-> x.count]}
    /\ rq' = IF out = "fail" /\ RetryDue(maxRetry, x.count)
               THEN Append(rq, Retry(c, x.body, x.count))
               ELSE rq
    /\ UNCHANGED <<bqueues, binds, running, events, built, declared, uuids, arg, ttl>>

(* the mutant of DeadLetterQueues below: expired envelopes go back to the  *)
(* work exchange                                                           *)
DeadLetterQueuesOfWorkExchange(e) ==
  {b.queue : b \in {x \in binds : x.routing_key = built[e.by].routing_key}}

(* __create_exchange: x-dead-letter-exchange '' sends an expired envelope  *)
(* to the default exchange, which routes it to the queue whose name is    *)
(* the envelope's routing key, if there is one                             *)
DeadLetterQueues(e) == {q.name : q \in {x \in bqueues : x.name = e.key}}

(* the envelope at the head of the retry queue has expired *)
Expire ==
  /\ rq # <<>>
  /\ Head(rq).age * 1000 >= Head(rq).ttl
  /\ rq' = Tail(rq)
  /\ inq' = inq \cup {[queue |-> n, body |-> Head(rq).body, count |-> Head(rq).count] :
                        n \in DeadLetterQueues(Head(rq))}
  /\ UNCHANGED <<bqueues, binds, running, events, got, failed, built, declared, uuids,
                 arg, ttl>>

(* a second passes *)
Second ==
  /\ \E i \in DOMAIN rq : rq[i].age * 1000 < rq[i].ttl
  /\ rq' = [i \in DOMAIN rq |->
              IF rq[i].age * 1000 < rq[i].ttl THEN [rq[i] EXCEPT !.age = @ + 1]
              ELSE rq[i]]
  /\ UNCHANGED <<bqueues, binds, running, inq, events, got, failed, built, declared,
                 uuids, arg, ttl>>

(* ======================================================================= *)
(*        the publish loop and a broker that accepts every publish         *)
(* ======================================================================= *)

VARIABLE pchan    \* the channel the awaited basic_publish was called on

InitSending == pchan = NoConn

(* the loop calls basic_publish on the channel that is current *)
Sending(A) ==
  /\ A
  /\ pchan' = IF lpc # "publishing" /\ lpc' = "publishing" THEN channel ELSE pchan

(* basic_publish returns: the connection of its channel is open *)
PublishReturns ==
  /\ pchan # NoConn
  /\ conns[pchan] = "open"
  /\ PublishOk

(* basic_publish raises: the connection of its channel is closed *)
PublishRaises ==
  /\ pchan # NoConn
  /\ conns[pchan] # "open"
  /\ PublishFail

yVars == <<tVars, bVars, pchan>>

InitLate == InitTasks /\ InitBroker /\ InitSending

xVars == <<eVars, nVars, peer, yVars>>

(* nothing published, default CONTEXT_WHEN_DELIVERY, no consumer built *)
InitRest == InitEnvelope({{}}, {{}}) /\ InitNames /\ InitPeer /\ InitLate

(* ======================================================================= *)
(*                             specification                               *)
(* ======================================================================= *)

vars == <<mqVars, dVars, oVars, pVars, xVars>>

Init ==
  InitMq /\ InitConsumer({-1}) /\ InitOutbox({FALSE}, {FALSE}) /\ InitLoop
    /\ InitRest

(* application.start_mq_servers creates one start() task per server.      *)
StartOnce == Start(1)

(* A caller that calls start() again on the same instance.                 *)
StartAgain == Start(MaxStarts)

(* Without a clock: how long an await or a timer takes is not observed.    *)
NoClock(A) == A /\ UNCHANGED <<errorAge, dVars, oVars, pVars, xVars>>

(* With the loop's clock: errorAge restarts when an error signal closes a  *)
(* RUNNING server and is void (saturated) when the state becomes CLOSED in *)
(* another way.                                                            *)
Clocked(A) ==
  /\ A
  /\ UNCHANGED <<dVars, oVars, pVars, xVars>>
  /\ errorAge' = IF state # "CLOSED" /\ state' = "CLOSED"
                   THEN IF state = "RUNNING" /\ signalled' # signalled
                          THEN 0 ELSE ReconnectDelay
                   ELSE errorAge

(* The program as application.py runs it; a pending timer runs at any      *)
(* later moment.                                                           *)
Next ==
  \/ NoClock(StartOnce)
  \/ NoClock(ConnectBegin)
  \/ NoClock(FromUrlOk)
  \/ NoClock(FromUrlFail)
  \/ NoClock(ChannelOk)
  \/ NoClock(ChannelFail)
  \/ NoClock(ExchangeStepOk)
  \/ NoClock(ExchangeDone)
  \/ NoClock(ExchangeFail)
  \/ NoClock(ConnectCloseDone)
  \/ NoClock(OnError)
  \/ NoClock(OnErrorCloseDone)
  \/ NoClock(Subscribe)
  \/ NoClock(ConsumerStartBegin)
  \/ NoClock(TimerElapsed)

Spec == Init /\ [][Next]_vars

(* The same program with callers that call start() more than once.        *)
NextRestart ==
  \/ NoClock(StartAgain)
  \/ NoClock(ConnectBegin)
  \/ NoClock(FromUrlOk)
  \/ NoClock(FromUrlFail)
  \/ NoClock(ChannelOk)
  \/ NoClock(ChannelFail)
  \/ NoClock(ExchangeStepOk)
  \/ NoClock(ExchangeDone)
  \/ NoClock(ExchangeFail)
  \/ NoClock(ConnectCloseDone)
  \/ NoClock(OnError)
  \/ NoClock(OnErrorCloseDone)
  \/ NoClock(Subscribe)
  \/ NoClock(ConsumerStartBegin)
  \/ NoClock(TimerElapsed)

SpecRestart == Init /\ [][NextRestart]_vars

(* The program with the loop's clock.                                      *)
NextTimed ==
  \/ Clocked(StartOnce)
  \/ Clocked(ConnectBegin)
  \/ Clocked(FromUrlOk)
  \/ Clocked(FromUrlFail)
  \/ Clocked(ChannelOk)
  \/ Clocked(ChannelFail)
  \/ Clocked(ExchangeStepOk)
  \/ Clocked(ExchangeDone)
  \/ Clocked(ExchangeFail)
  \/ Clocked(ConnectCloseDone)
  \/ Clocked(OnError)
  \/ Clocked(OnErrorCloseDone)
  \/ Clocked(Subscribe)
  \/ Clocked(ConsumerStartBegin)
  \/ Clocked(TimerDue)
  \/ Tick /\ UNCHANGED <<dVars, oVars, pVars, xVars>>

SpecTimed == Init /\ [][NextTimed]_vars

(* The event loop runs every task that can run, every awaited operation    *)
(* returns or raises in the end, and every timer runs; error signals and   *)
(* subscribe() calls are the environment's and need not happen.            *)
Fairness ==
  /\ WF_vars(NoClock(StartOnce))
  /\ WF_vars(NoClock(ConnectBegin))
  /\ WF_vars(NoClock(FromUrlOk \/ FromUrlFail))
  /\ WF_vars(NoClock(ChannelOk \/ ChannelFail))
  /\ WF_vars(NoClock(ExchangeStepOk \/ ExchangeDone \/ ExchangeFail))
  /\ WF_vars(NoClock(ConnectCloseDone))
  /\ WF_vars(NoClock(OnErrorCloseDone))
  /\ WF_vars(NoClock(TimerElapsed))
  /\ WF_vars(NoClock(ConsumerStartBegin))

SpecFair == Init /\ [][Next]_vars /\ Fairness

(* A server that is RUNNING on its first connection with its consumer      *)
(* started, the state application.start_mq_servers brings about.           *)
InitRunning ==
  /\ state = "RUNNING"
  /\ connection = 1
  /\ channel = 1
  /\ conns = [c \in ConnIds |-> IF c = 1 THEN "open" ELSE "unopened"]
  /\ signalled = {}
  /\ ctasks = [t \in CTaskIds |-> 0]
  /\ etasks = 0
  /\ timers = [r \in 0..ReconnectDelay |-> 0]
  /\ errorAge = ReconnectDelay
  /\ startCalls = 1
  /\ startErrors = 0
  /\ ploops = 1
  /\ consumers = {1}
  /\ stasks = [c \in ConsumerIds |-> 0]

Handling(A) == A /\ UNCHANGED <<mqVars, oVars, pVars, xVars>>

(* The consumer at work: deliveries arrive and are handled while the       *)
(* connection is up and after it has been lost, before the reconnect.      *)
NextConsumer ==
  \/ Handling(OnMessage)
  \/ Handling(Redeliver)
  \/ Handling(HandleBegin)
  \/ Handling(HandlerReturns)
  \/ Handling(HandlerFails)
  \/ Handling(RetryChannelOk)
  \/ Handling(RetryPublishOk)
  \/ Handling(RetryCloseOk)
  \/ Handling(RetryFail)
  \/ Handling(AckDone)
  \/ NoClock(OnError)
  \/ NoClock(OnErrorCloseDone)

(* a consumer built with any max_retry up to MaxRetry, default settings *)
InitAtWork ==
  InitRunning /\ InitConsumer(-1..MaxRetry) /\ InitOutbox({FALSE}, {FALSE})
    /\ InitLoop /\ InitRest

SpecConsumer == InitAtWork /\ [][NextConsumer]_vars

Serving(A) == A /\ UNCHANGED <<mqVars, dVars, pVars, xVars>>

(* Units of work: HTTP requests and one consumed message, whose handlers   *)
(* publish, under every setting of DEBUG and                               *)
(* IGNORE_CONTEXT_WHEN_DELIVERY; the consumer is built with max_retry = 0, *)
(* so a failed delivery goes straight to its acknowledgement.              *)
NextOutbox ==
  \/ Serving(RequestBegin)
  \/ Serving(RequestPublish)
  \/ Serving(RequestReturns)
  \/ Serving(RequestFails)
  \/ Serving(PublishRuns)
  \/ Serving(HandlerPublishes)
  \/ Handling(OnMessageOne)
  \/ Handling(HandleBegin)
  \/ Handling(HandlerReturns)
  \/ Handling(HandlerFails)
  \/ Handling(AckDone)

InitUnits ==
  InitRunning /\ InitConsumer({0}) /\ InitOutbox(BOOLEAN, BOOLEAN)
    /\ InitLoop /\ InitRest

SpecOutbox == InitUnits /\ [][NextOutbox]_vars

(* The server with callers of publish(): start(), a broker that accepts    *)
(* every connection and signals an error on the first one at any moment,   *)
(* the reconnection, and the publish loop.                                 *)
OnErrorOnce == signalled = {} /\ OnError

Looping(A) == A /\ UNCHANGED xVars

InitPublisher ==
  InitMq /\ InitConsumer({-1}) /\ InitOutbox({FALSE}, {FALSE}) /\ InitLoop
    /\ InitRest

NextPublisher ==
  \/ NoClock(StartOnce)
  \/ NoClock(ConnectBegin)
  \/ NoClock(FromUrlOk)
  \/ NoClock(ChannelOk)
  \/ NoClock(ExchangeStepOk)
  \/ NoClock(ExchangeDone)
  \/ NoClock(OnErrorOnce)
  \/ NoClock(OnErrorCloseDone)
  \/ NoClock(TimerElapsed)
  \/ Looping(Publish)
  \/ Looping(LoopEnter)
  \/ Looping(LoopGetWakes)
  \/ Looping(PublishOk)
  \/ Looping(PublishFail)
  \/ Looping(RequeueRuns)

SpecPublisher == InitPublisher /\ [][NextPublisher]_vars

(* Requests that publish, and the consumer that reads what they wrote, for *)
(* every setting of the two lists.                                         *)
Enveloping(A) == A /\ UNCHANGED <<mqVars, dVars, oVars, pVars, nVars, peer, yVars>>

InitDelivery ==
  /\ InitMq /\ InitConsumer({-1}) /\ InitOutbox({FALSE}, {TRUE}) /\ InitLoop
  /\ InitEnvelope(SUBSET Custom, SUBSET ContextFields)
  /\ InitNames /\ InitPeer /\ InitLate

NextDelivery ==
  \/ Enveloping(init_context)
  \/ Enveloping(PublishEnvelope)
  \/ Enveloping(HandleEnvelope)
  \/ Enveloping(HandleEnvelopeDone)

SpecDelivery == InitDelivery /\ [][NextDelivery]_vars

(* The consumers a server builds and starts, and the delays they compute.  *)
Naming(A) == A /\ UNCHANGED <<mqVars, dVars, oVars, pVars, eVars, peer, yVars>>

NextNames ==
  \/ Naming(NewConsumer)
  \/ Naming(ConsumerStart)
  \/ Naming(GetTtl)

SpecNames == Init /\ [][NextNames]_vars

(* Two deliveries to one consumer, the second made while the handler of    *)
(* the first is running.                                                   *)
NextOverlap ==
  \/ Handling(OnMessageOne)
  \/ Handling(OnMessageLater)
  \/ Handling(Redeliver)
  \/ Handling(HandleBegin)
  \/ Handling(HandlerReturns)
  \/ Handling(HandlerFails)
  \/ Handling(RetryChannelOk)
  \/ Handling(RetryPublishOk)
  \/ Handling(RetryCloseOk)
  \/ Handling(RetryFail)
  \/ Handling(AckDone)

SpecOverlap == InitAtWork /\ [][NextOverlap]_vars

(* Two servers, each with one item put on its queue before start(): the   *)
(* first with its connection followed step by step, failures of every      *)
(* connect step, one error signal and the publish loop; the second beside  *)
(* it.                                                                     *)
Beside(A) ==
  /\ A
  /\ UNCHANGED <<debug, ignoreSet, hpc, outbox, hfailed, hcommitted, seq, puts,
                 refused>>
  /\ UNCHANGED <<startVars, consVars, errorAge, dVars, pVars, eVars, nVars, yVars>>

InitPeers ==
  /\ InitMq /\ InitConsumer({-1}) /\ InitLoop
  /\ debug = FALSE /\ ignoreSet = FALSE
  /\ hpc = [q \in Reqs |-> "idle"]
  /\ outbox = [q \in Reqs |-> <<>>]
  /\ hfailed = [q \in Reqs |-> FALSE]
  /\ hcommitted = [q \in Reqs |-> FALSE]
  /\ seq = 2
  /\ puts = <<>>
  /\ queue = [s \in Servers |->
               IF s = "default" THEN <<Message(1, "call", 0, FALSE, s)>>
               ELSE <<Message(2, "call", 0, FALSE, s)>>]
  /\ refused = {}
  /\ InitRest

NextPeers ==
  \/ NoClock(StartOnce)
  \/ NoClock(ConnectBegin)
  \/ NoClock(FromUrlOk)
  \/ NoClock(FromUrlFail)
  \/ NoClock(ChannelOk)
  \/ NoClock(ChannelFail)
  \/ NoClock(ExchangeStepOk)
  \/ NoClock(ExchangeDone)
  \/ NoClock(ExchangeFail)
  \/ NoClock(ConnectCloseDone)
  \/ NoClock(OnErrorOnce)
  \/ NoClock(OnErrorCloseDone)
  \/ NoClock(TimerElapsed)
  \/ Looping(LoopEnter)
  \/ Looping(LoopGetWakes)
  \/ Looping(PublishOk)
  \/ Looping(PublishFail)
  \/ Looping(RequeueRuns)
  \/ Beside(PeerConnectBegin)
  \/ Beside(PeerConnected)
  \/ Beside(PeerDispose)
  \/ Beside(PeerSubscribe)
  \/ Beside(PeerPublishOk)

SpecPeers == InitPeers /\ [][NextPeers]_vars

(* One delivery whose handler publishes, deferred or not, for a consumer   *)
(* built with any max_retry up to MaxRetry.                                *)
InitDefer ==
  InitRunning /\ InitConsumer(-1..MaxRetry) /\ InitOutbox({FALSE}, BOOLEAN)
    /\ InitLoop /\ InitRest

NextDefer ==
  \/ Handling(OnMessageOne)
  \/ Handling(HandleBegin)
  \/ Serving(HandlerDefers)
  \/ Serving(HandlerPublishes)
  \/ Handling(HandlerReturns)
  \/ Handling(HandlerFails)
  \/ Handling(RetryChannelOk)
  \/ Handling(RetryPublishOk)
  \/ Handling(RetryCloseOk)
  \/ Handling(RetryFail)
  \/ Handling(AckDone)
  \/ NoClock(OnError)
  \/ NoClock(OnErrorCloseDone)

SpecDefer == InitDefer /\ [][NextDefer]_vars

(* The HTTP side alone: requests whose handlers publish; the server is not *)
(* yet started, its queues only fill.                                      *)
InitRequests ==
  InitMq /\ InitConsumer({-1}) /\ InitOutbox(BOOLEAN, {TRUE})
    /\ InitLoop /\ InitRest

NextRequests ==
  \/ Serving(RequestBegin)
  \/ Serving(RequestPublish)
  \/ Serving(RequestReturns)
  \/ Serving(RequestFails)
  \/ Serving(PublishRuns)

SpecRequests == InitRequests /\ [][NextRequests]_vars

(* Requests, and tasks outside every unit of work that publish.            *)
NextDirect ==
  \/ Serving(RequestBegin)
  \/ Serving(RequestPublish)
  \/ Serving(RequestReturns)
  \/ Serving(RequestFails)
  \/ Serving(PublishRuns)
  \/ Serving(PublishNoContext)

SpecDirect == InitRequests /\ [][NextDirect]_vars

(* Requests and subscriptions, some of them naming a server that the       *)
(* registry does not hold.                                                 *)
NextLookup ==
  \/ Serving(RequestBegin)
  \/ Serving(RequestPublish)
  \/ Serving(RequestPublishUnknown)
  \/ Serving(RequestReturns)
  \/ Serving(RequestFails)
  \/ Serving(PublishRuns)
  \/ NoClock(Subscribe)
  \/ Serving(SubscribeUnknown)

SpecLookup == InitRequests /\ [][NextLookup]_vars

(* The same with handlers that also flush their events themselves.         *)
NextCommit ==
  \/ Serving(RequestBegin)
  \/ Serving(RequestPublish)
  \/ Serving(RequestCommits)
  \/ Serving(RequestReturns)
  \/ Serving(RequestFails)
  \/ Serving(PublishRuns)

SpecCommit == InitRequests /\ [][NextCommit]_vars

(* ======================================================================= *)
(*                     properties of the connection manager                *)
(* ======================================================================= *)

(* C1: every call of start() after the first one raises 'already started'  *)
(* and creates no further connect task (so opens no second connection),    *)
(* whenever the second call is made.                                       *)
C1_SecondStartRejected ==
  startCalls >= 1 => /\ startErrors = startCalls - 1
                     /\ ploops = 1

Allowed(s, t) ==
  \/ s = "INIT" /\ t = "CONNECTING"
  \/ s = "CONNECTING" /\ t = "CONNECTED"
  \/ s = "CONNECTED" /\ t = "RUNNING"
  \/ s \in {"CONNECTING", "CONNECTED", "RUNNING"} /\ t = "CLOSED"
  \/ s = "CLOSED" /\ t = "CONNECTING"

(* C2: every change of MqServer.state is INIT->CONNECTING,                 *)
(* CONNECTING->CONNECTED, CONNECTED->RUNNING, one of                       *)
(* CONNECTING/CONNECTED/RUNNING->CLOSED, or CLOSED->CONNECTING.            *)
C2_OnlyListedTransitions ==
  [][state' # state => Allowed(state, state')]_vars

(* C3: an error signal closes the server in the step in which it arrives,  *)
(* and after an error signal has closed a RUNNING server the state does    *)
(* not become CONNECTING before reconnect_delay has passed.                *)
C3_ReconnectNotBeforeDelay ==
  [][/\ signalled' # signalled => state' = "CLOSED"
     /\ (state = "CLOSED" /\ state' = "CONNECTING") => errorAge >= ReconnectDelay]_vars

(* C4: whenever the state is CLOSED a new connect attempt is made later:   *)
(* the state becomes CONNECTING again.                                     *)
C4_ClosedLeadsToConnecting ==
  (state = "CLOSED") ~> (state = "CONNECTING")

(* C5: at most one connection is open (opened and not closed) at a time.   *)
C5_AtMostOneOpenConnection ==
  Cardinality({c \in ConnIds : conns[c] = "open"}) <= 1

(* C6: a consumer registered while RUNNING has its start() launched in the *)
(* same step; one registered in another state is not launched then, stays  *)
(* registered, and is launched by the next successful connect sequence;    *)
(* every connect sequence that reaches RUNNING (the first and each         *)
(* reconnect) launches start() of every registered consumer.               *)
C6_ConsumersLaunched ==
  [][/\ consumers \subseteq consumers'
     /\ \A c \in consumers' \ consumers :
          stasks'[c] = IF state = "RUNNING" THEN stasks[c] + 1 ELSE stasks[c]
     /\ (state # "RUNNING" /\ state' = "RUNNING") =>
          \A c \in consumers : stasks'[c] = stasks[c] + 1]_vars

(* A consumer registered before the connection was lost is launched again  *)
(* by the reconnect that reached RUNNING.                                  *)
C6_Witness ==
  /\ state = "RUNNING"
  /\ signalled # {}
  /\ \E c \in consumers : stasks[c] > 0

(* ======================================================================= *)
(*                        properties of the consumer                       *)
(* ======================================================================= *)

Failed(m) == res[m] \in {"raise", "timeout"}

(* the handler of the delivery of m has completed and the except branch,   *)
(* if it ran, is over                                                      *)
Handled(m) == dpc[m] \in {"ack", "done"}

(* C7: when the handler failed on a delivery with retried count r, a retry *)
(* envelope is published for it if and only if max_retry < 0 or            *)
(* r < max_retry, and the envelope carries the body of the delivery, goes  *)
(* to the retry exchange, and has x-retry-count r+1 and expiration         *)
(* get_ttl(r+1).                                                           *)
C7_RetryRule ==
  \A m \in Msgs :
    (Handled(m) /\ Failed(m)) =>
      /\ (sent[m] # NoEnvelope) <=> (maxRetry < 0 \/ rc[m] < maxRetry)
      /\ sent[m] # NoEnvelope =>
           /\ sent[m].body = m
           /\ sent[m].exchange = "retry"
           /\ sent[m].count = rc[m] + 1
           /\ sent[m].ttl = get_ttl(rc[m] + 1)

(* the backoff schedule, in milliseconds: min(2^n, 180) seconds *)
delayFor(n) == (IF 2 ^ n < 180 THEN 2 ^ n ELSE 180) * 1000

(* no task runs for m and no envelope of m waits in the retry queue *)
Settled(m) == dpc[m] = "done" /\ retryq[m] = NoEnvelope

(* C8: with max_retry = n >= 0, once a message is settled: if its handler  *)
(* failed k <= n times and then succeeded, exactly k envelopes were        *)
(* published, with x-retry-count 1..k and TTLs delayFor(1)..delayFor(k) in *)
(* that order, and the handler was invoked k+1 times; if its handler       *)
(* failed every time it was invoked n+1 times and n envelopes were         *)
(* published.                                                              *)
C8_RetryCounts ==
  \A m \in Msgs :
    (maxRetry >= 0 /\ Settled(m)) =>
      /\ res[m] = "ok" =>
           /\ fails[m] <= maxRetry
           /\ invoked[m] = fails[m] + 1
           /\ Len(pubs[m]) = fails[m]
           /\ \A i \in 1..Len(pubs[m]) :
                pubs[m][i].count = i /\ pubs[m][i].ttl = delayFor(i)
      /\ Failed(m) =>
           /\ invoked[m] = maxRetry + 1
           /\ Len(pubs[m]) = maxRetry

(* C9: a delivery whose handler returned, raised or timed out has had      *)
(* exactly one acknowledgement call, a basic ack, and none before the      *)
(* handler completed; a delivery that has a task is handled whatever       *)
(* happened to the other deliveries.                                       *)
C9_AckedOnce ==
  /\ \A m \in Msgs :
       /\ Handled(m) => ops[m] = <<"ack">>
       /\ res[m] # "none" =>
            dpc[m] \in {"retry_chan", "retry_pub", "retry_close", "ack", "done"}
       /\ dpc[m] \in {"new", "handling", "retry_chan", "retry_pub", "retry_close"}
            => ops[m] = <<>>
  /\ (\E m \in Msgs : dpc[m] = "new") => ENABLED HandleBegin

(* One delivery failed and its retry publication raised; the other was     *)
(* redelivered from the retry queue, handled and acknowledged.             *)
C9_Witness ==
  \E m, k \in Msgs :
    /\ dpc[m] = "done" /\ Failed(m) /\ raised[m] /\ ops[m] = <<"ack">>
    /\ dpc[k] = "done" /\ res[k] = "ok" /\ hdr[k].kind = "num"
    /\ ops[k] = <<"ack">>

(* ======================================================================= *)
(*                         properties of the outbox                        *)
(* ======================================================================= *)

(* the messages handed to a publisher: scheduled for, or placed in, the    *)
(* outbound queue of a server                                              *)
HandedOver ==
  {puts[i] : i \in 1..Len(puts)}
    \cup UNION {{queue[s][i] : i \in 1..Len(queue[s])} : s \in Servers}

(* C10: a message published with send_after_done=True is handed to a       *)
(* publisher only once commit_events() has run for its context; for a      *)
(* unit of work that failed (request or consumed message) commit_events()  *)
(* is not called and none of its deferred messages is handed over.         *)
C10_OutboxHeldUntilCommit ==
  /\ \A msg \in HandedOver :
       msg.deferred => msg.kind = "http" /\ hcommitted[msg.unit]
  /\ \A q \in Reqs :
       (hfailed[q] /\ outbox[q] # <<>>) =>
         /\ ~hcommitted[q]
         /\ ~\E msg \in HandedOver :
              msg.deferred /\ msg.kind = "http" /\ msg.unit = q
  /\ \A m \in Msgs : Failed(m) => ~committed[m]

(* the messages of sequence msgs that request q deferred for server s *)
DeferredFor(msgs, q, s) ==
  LET Mine(msg) == /\ msg.deferred /\ msg.kind = "http"
                   /\ msg.unit = q /\ msg.server = s
  IN SelectSeq(msgs, Mine)

(* C11: once commit_events() has run for the context of a request, every   *)
(* message of its list has been handed to the publisher of the server it   *)
(* names, once: for each server, the messages of the request in that       *)
(* server's outbound queue, followed by those whose put is scheduled, are  *)
(* the messages of the list for that server in the order of the list; and  *)
(* before the commit none is there.                                        *)
C11_CommitHandsInOrder ==
  \A q \in Reqs, s \in Servers :
    DeferredFor(queue[s] \o puts, q, s)
      = IF hcommitted[q] THEN DeferredFor(outbox[q], q, s) ELSE <<>>

(* A request deferred two messages for one server, was committed, and both *)
(* puts have run.                                                          *)
C11_Witness ==
  \E q \in Reqs :
    /\ hcommitted[q] /\ Len(outbox[q]) = 2 /\ puts = <<>>
    /\ \E s \in Servers : Len(DeferredFor(queue[s], q, s)) = 2

(* how often message msg occurs in sequence msgs *)
Occurrences(msgs, msg) == Cardinality({i \in 1..Len(msgs) : msgs[i] = msg})

(* C12: when commit_events() has returned and the context is still the     *)
(* active one its messages list is empty, and no message is handed to a    *)
(* publisher twice.                                                        *)
C12_CommitDrains ==
  /\ \A q \in Reqs :
       (hcommitted[q] /\ hpc[q] = "handler") => outbox[q] = <<>>
  /\ \A s \in Servers : \A msg \in HandedOver :
       Occurrences(queue[s] \o puts, msg) <= 1

(* the messages the handler of delivery m published with                   *)
(* send_after_done=True, wherever the call left them                       *)
DeferredBy(m) ==
  {msg \in refused \cup HandedOver : msg.kind = "mq" /\ msg.unit = m /\ msg.deferred}

(* C13: when the handler of a delivery has succeeded and the delivery is   *)
(* being or has been acked, every message the handler published with       *)
(* send_after_done=True has been handed to a publisher.                    *)
C13_DeferredHandedBeforeAck ==
  \A m \in Msgs :
    (Handled(m) /\ res[m] = "ok") => DeferredBy(m) \subseteq HandedOver

(* C14: a delivery whose handler timed out takes the failure path:         *)
(* commit_events() is not called, a retry envelope is published when the   *)
(* retry rule allows it, the delivery gets its one ack, and nothing the    *)
(* handler deferred, before or after the timeout, is handed to a           *)
(* publisher.                                                              *)
C14_TimeoutIsFailure ==
  \A m \in Msgs :
    /\ (Handled(m) /\ res[m] = "timeout") =>
         /\ ~committed[m]
         /\ RetryDue(maxRetry, rc[m]) => sent[m] # NoEnvelope
         /\ ops[m] = <<"ack">>
    /\ res[m] = "timeout" => DeferredBy(m) \cap HandedOver = {}

(* C15: a call of MqServer.publish, in whatever state the manager is,       *)
(* returns without raising and starts no broker operation, appends exactly *)
(* its one item at the tail of the outbound queue, and leaves the state    *)
(* and the connection as they were.                                        *)
C15_PublishOnlyEnqueues ==
  [][seq' # seq =>
       /\ queue' = [queue EXCEPT !["default"] =
                      Append(@, Message(seq', "call", 0, FALSE, "default"))]
       /\ refused' = refused
       /\ UNCHANGED <<state, connection, channel, conns>>
       /\ UNCHANGED <<lpc, inflight, published>>]_vars

(* publish() was called before start(): nothing else has run yet *)
C15_Witness == state = "INIT" /\ Len(Outbound) = 1

(* C16: while the state is neither CONNECTED nor RUNNING the publish loop  *)
(* takes no item off the outbound queue and starts no broker publish, so   *)
(* that whatever is enqueued in that period is still queued when the state *)
(* becomes CONNECTED again.                                                *)
C16_LoopIdlesWhileNotConnected ==
  [][state \notin {"CONNECTED", "RUNNING"} =>
       /\ Len(Outbound') >= Len(Outbound)
       /\ lpc' = "publishing" => lpc = "publishing"]_vars

(* where the item accepted by the i-th call of publish() is *)
Queued(i) == i \in IdsOf(Outbound)
Held(i) == inflight.id = i \/ i \in IdsOf(requeues)
Published(i) == \E k \in 1..Len(published) : published[k] = i
(* C17: no item accepted by publish() is ever lost: at every moment each   *)
(* accepted item is in the outbound queue, is being published or put back, *)
(* or has been published, whatever publish errors, timeouts and connection *)
(* losses occur; and no call of publish() has raised.                      *)
C17_NoAcceptedItemLost ==
  /\ \A i \in 1..seq : Queued(i) \/ Held(i) \/ Published(i)
  /\ refused = {}

(* an item that failed at the broker and went back to the queue was        *)
(* published in the end, across a connection loss                          *)
C17_Witness ==
  /\ brokerFailed
  /\ signalled # {}
  /\ seq = MaxPublish
  /\ \A i \in 1..seq : Published(i)

(* the loop takes item i off the queue in this step: an attempt begins *)
Attempted(i) ==
  /\ Outbound # <<>>
  /\ Head(Outbound).id = i
  /\ Outbound' = Tail(Outbound)

(* C18: when the publish of item m fails or times out, m goes back to the  *)
(* tail of the outbound queue and the loop goes on: every item that was    *)
(* queued at the time of the failure is attempted before m is attempted    *)
(* again.  (ahead[m] holds the items queued at m's last failure that have  *)
(* not been attempted since.)                                              *)
C18_FailedItemGoesLast ==
  [][\A m \in Ids : Attempted(m) => ahead[m] = {}]_vars

(* an item that failed while others were queued is attempted again *)
C18_Witness == lpc = "publishing" /\ inflight.id \in waited /\ brokerFailed

(* C19: if no broker publish attempt fails or times out, the items are     *)
(* published in exactly the order of the calls of publish(), those         *)
(* enqueued before the connection or during a reconnection included.       *)
C19_PublishedInCallOrder ==
  ~brokerFailed =>
    \A j, k \in 1..Len(published) : j < k => published[j] < published[k]

(* a call that the claim of C20 sends directly *)
Direct(msg) == ~msg.deferred \/ msg.kind = "none"
Stored == UNION {{outbox[q][i] : i \in 1..Len(outbox[q])} : q \in Reqs}

(* C20: a publish with send_after_done=False, or one made while no context *)
(* is active, puts exactly one item on the outbound queue of the named     *)
(* server at the call, and nothing in any outbox: the call does not raise, *)
(* and its message is neither stored nor left to a scheduled hand-over.    *)
C20_DirectPublish ==
  /\ \A msg \in refused : ~Direct(msg)
  /\ \A msg \in Stored : ~Direct(msg)
  /\ \A k \in 1..Len(puts) : ~Direct(puts[k])
  /\ \A s \in Servers : \A k \in 1..Len(queue[s]) :
       Direct(queue[s][k]) =>
         /\ queue[s][k].server = s
         /\ Occurrences(queue[s], queue[s][k]) = 1

(* C21: a publish, deferred or not, or a subscription of handlers that     *)
(* names a server the registry does not hold raises at the call: the       *)
(* message is neither stored in the context's list nor handed to any       *)
(* publisher, and the step leaves every list, every outbound queue and the *)
(* consumer set as they were.                                              *)
C21_UnknownServerRaises ==
  [][/\ \A msg \in Stored' \cup HandedOver' : msg.server \in Servers
     /\ \A i \in 1..seq' :
          i \in {msg.id : msg \in Stored' \cup HandedOver' \cup refused'}
     /\ \A msg \in refused' \ refused :
          msg.server \notin Servers =>
            UNCHANGED <<outbox, puts, queue, consumers, stasks>>]_vars

(* both calls have raised, with a stored message and a consumer in place *)
C21_Witness ==
  /\ consumers # {}
  /\ \E msg \in refused : msg.kind = "subscribe"
  /\ \E msg \in refused :
       /\ msg.kind = "http" /\ msg.deferred /\ msg.server \notin Servers
       /\ outbox[msg.unit] # <<>>

(* C22: the context a published envelope carries consists of the trace id  *)
(* and of the context fields named in CONTEXT_WHEN_DELIVERY (the event     *)
(* name and the occurrence time travel with the event): no other field of  *)
(* the context, such as the messages list or request_at, is carried.       *)
C22_OnlyAllowedContext ==
  body # NoBody =>
    Keys(body.context) \cup Keys(body.headers)
      \subseteq {"trace_id", "X-TRACE-ID"} \cup allow
                  \cup {HeaderOf(k) : k \in allow}

(* C29: the trace id of the context in which the consumer's handler runs   *)
(* is the trace id of the context in which the event was published: the    *)
(* consumer reads it back from the envelope the publisher wrote.           *)
C29_TraceIdCarried ==
  cctx # {} => Get(cctx, "trace_id", 0) = origin

(* C23: get_ttl(n) is delayFor(n) for every integer n: 0 for n <= 0 and    *)
(* min(2^n, 180) * 1000 for n >= 1; in particular 0, 2000, 4000, 128000,   *)
(* 180000 and 180000 for n = 0, 1, 2, 7, 8 and 20.                         *)
C23_TtlIsDelayFor ==
  /\ ttl = IF arg <= 0 THEN 0 ELSE delayFor(arg)
  /\ arg = 0 => ttl = 0
  /\ arg = 1 => ttl = 2000
  /\ arg = 2 => ttl = 4000
  /\ arg = 7 => ttl = 128000
  /\ arg = 8 => ttl = 180000
  /\ arg = 20 => ttl = 180000

(* get_ttl was called at the first capped count *)
C23_Witness == arg = 8 /\ ttl = 180000

(* the starts of work-mode and of broadcast consumers *)
Starts(subscribe) ==
  {i \in 1..Len(declared) : declared[i].subscribe = subscribe}

(* C24: two work-mode consumers of the same handler use the same queue     *)
(* name, and a work-mode consumer uses the same queue name on every        *)
(* start(), also after a reconnect.                                        *)
C24_WorkQueueNameFixed ==
  \A i, j \in Starts(FALSE) :
    declared[i].handler = declared[j].handler =>
      declared[i].queue = declared[j].queue

(* two work-mode consumers of one handler have started, one of them twice *)
C24_Witness ==
  \E i, j, k \in Starts(FALSE) :
    /\ i < j /\ j < k
    /\ declared[i].handler = declared[j].handler
    /\ declared[j].handler = declared[k].handler
    /\ declared[i].consumer # declared[j].consumer
    /\ declared[k].consumer = declared[i].consumer

(* C25: a broadcast consumer declares an exclusive queue whose name has a  *)
(* new random suffix on every start(): no two starts of broadcast          *)
(* consumers, of the same consumer or of two consumers of one handler, use *)
(* the same queue name.                                                    *)
C25_BroadcastQueueNameFresh ==
  \A i, j \in Starts(TRUE) :
    /\ declared[i].exclusive
    /\ i # j => declared[i].queue # declared[j].queue

(* a broadcast consumer has started twice, another of the same handler once *)
C25_Witness ==
  \E i, j, k \in Starts(TRUE) :
    /\ i < j /\ j < k
    /\ declared[i].consumer = declared[j].consumer
    /\ declared[k].consumer # declared[i].consumer
    /\ declared[k].handler = declared[i].handler

(* C30: along the redeliveries of one message the retried count the        *)
(* consumer reads goes up by exactly 1 each time: 0 on the first delivery, *)
(* k on the delivery that the envelope with x-retry-count = k causes (the  *)
(* k-th envelope published for the message); a missing or a negative      *)
(* x-retry-count is read as 0.                                             *)
C30_RetriedCountByOne ==
  \A m \in Msgs :
    /\ \A k \in 1..Len(pubs[m]) : pubs[m][k].count = k
    /\ dpc[m] = "handling" =>
         /\ rc[m] = Len(pubs[m])
         /\ hdr[m] \in {NoHeader, Count(-1)} => rc[m] = 0
         /\ hdr[m].kind = "num" /\ hdr[m].val >= 0 => rc[m] = hdr[m].val

(* one message is handled for the third time, the other came with a        *)
(* negative count                                                           *)
C30_Witness ==
  \E m, n \in Msgs :
    /\ dpc[m] = "handling" /\ rc[m] = 2
    /\ dpc[n] = "handling" /\ hdr[n] = Count(-1)

(* C28: whenever a delivery whose handler failed while retries remain      *)
(* (max_retry < 0 or retried count < max_retry) is acked, its retry        *)
(* envelope has been published to the retry exchange, also when the        *)
(* connection is lost or the retry publish itself fails.                   *)
C28_NoAckWithoutRetry ==
  \A m \in Msgs :
    (dpc[m] = "ack" /\ Failed(m) /\ RetryDue(maxRetry, rc[m])) =>
      /\ retryq[m] # NoEnvelope
      /\ retryq[m].exchange = "retry"

(* C26: the handling of a delivery does not wait for the handler of an     *)
(* earlier delivery to the same consumer: whatever the task of the other   *)
(* delivery is doing, a delivery that has a task can be taken up, its      *)
(* handler can complete and its ack can be made.                           *)
C26_DeliveriesNotSerialized ==
  \A m \in Msgs :
    /\ dpc[m] = "new" => ENABLED (HandleBegin /\ dpc'[m] # "new")
    /\ dpc[m] = "handling" => ENABLED (HandlerReturns /\ dpc'[m] = "ack")
    /\ dpc[m] = "ack" => ENABLED (AckDone /\ dpc'[m] = "done")

(* the first handler is still running, the delivery made after it began    *)
(* was handled and acked                                                   *)
C26_Witness ==
  /\ dpc[1] = "handling" /\ invoked[1] = 1
  /\ dpc[2] = "done" /\ res[2] = "ok" /\ ops[2] = <<"ack">>

(* what the claim of C27 lists of one server *)
Own == <<state, connection, channel, consumers, queue["default"]>>
Others == <<peer, queue["other"]>>

(* C27: a connect failure, an error signal, a dispose, a reconnect or a    *)
(* publish failure of one MqServer leaves the state, connection, channel,  *)
(* consumer set and outbound queue of every other MqServer unchanged: no   *)
(* step changes anything of one server together with anything of another.  *)
C27_ServersIndependent ==
  [][/\ (connVars' # connVars \/ pVars' # pVars \/ Own' # Own)
          => Others' = Others
     /\ Others' # Others => Own' = Own]_vars

(* the first server was closed by a failure and a publish failed, the      *)
(* second is running with its consumer and its item still queued           *)
C27_Witness ==
  /\ state = "CLOSED" /\ brokerFailed
  /\ peer = Peer("RUNNING", 1, 1, {1})
  /\ queue["other"] # <<>>

(* C35: whenever MqServer.state is CONNECTED or RUNNING the connection and *)
(* the control channel are set, and whenever the state is CLOSED the       *)
(* connection is None, also when an error signal arrives while a connect   *)
(* attempt is suspended.                                                   *)
C35_HandlesMatchState ==
  /\ state \in {"CONNECTED", "RUNNING"} => connection # NoConn /\ channel # NoConn
  /\ state = "CLOSED" => connection = NoConn

RECURSIVE BagSum(_, _)
BagSum(b, S) ==
  IF S = {} THEN 0
  ELSE LET t == CHOOSE x \in S : TRUE IN b[t] + BagSum(b, S \ {t})

(* The connect attempts past the guard of __connect_to_broker and not yet  *)
(* finished: suspended in from_url, channel() or __create_exchange.        *)
InFlight ==
  BagSum(ctasks, {t \in CTaskIds : t[1] \in {"from_url", "channel", "ex1", "ex2", "ex3", "ex4"}})

(* C39: at most one connect attempt is in flight and at most one publish   *)
(* loop runs, whatever start() calls, error signals and reconnect timers   *)
(* have occurred.                                                          *)
C39_OneAttemptOneLoop ==
  /\ InFlight <= 1
  /\ ploops <= 1

(* C33: when a handler failed and a retry is due, the step that calls      *)
(* basic_client_ack for the delivery finds its retry envelope already in   *)
(* the retry queue: the message is never acked and absent from that queue. *)
C33_RetryPublishedBeforeAck ==
  [][\A m \in Msgs :
       (/\ ops'[m] = Append(ops[m], "ack")
        /\ res'[m] \in {"raise", "timeout"}
        /\ RetryDue(maxRetry, rc[m]))
         => retryq[m] # NoEnvelope /\ retryq[m] = sent[m]]_vars

(* The consumer whose tasks are run by the event loop: every task that can *)
(* take a step takes it, and an awaited call returns or raises.            *)
FairConsumer ==
  /\ WF_vars(Handling(HandleBegin))
  /\ WF_vars(Handling(HandlerReturns \/ HandlerFails))
  /\ WF_vars(Handling(RetryChannelOk \/ RetryPublishOk \/ RetryCloseOk \/ RetryFail))
  /\ WF_vars(Handling(AckDone))

SpecConsumerFair == InitAtWork /\ [][NextConsumer]_vars /\ FairConsumer

(* C38: every delivery handed to the consumer is acked later unless the    *)
(* connection of its channel is closed, also one whose body cannot be      *)
(* decoded or whose x-retry-count is not a number.                         *)
C38_EveryDeliveryAcked ==
  \A m \in Msgs : (dpc[m] = "new") ~> (ops[m] = <<"ack">> \/ connection = NoConn)

(* C32: a server has at most one Consumer per (routing_key, handler): a    *)
(* second subscribe() with the same routing key and the same handler adds  *)
(* no second consumer, and no two consumers of one routing key and handler *)
(* are started on the same queue.                                          *)
C32_OneConsumerPerKeyAndHandler ==
  /\ \A c, d \in Cons :
       (/\ c # d /\ built[c].made /\ built[d].made
        /\ built[c].routing_key = built[d].routing_key)
         => built[c].handler # built[d].handler
  /\ \A i, j \in 1..Len(declared) :
       (/\ declared[i].consumer # declared[j].consumer
        /\ declared[i].routing_key = declared[j].routing_key
        /\ declared[i].handler = declared[j].handler)
         => declared[i].queue # declared[j].queue

(* Deliveries handled at the same time by one consumer, for every setting  *)
(* of CONTEXT_WHEN_DELIVERY.                                               *)
Tasking(A) == A /\ UNCHANGED <<mqVars, dVars, oVars, pVars, eVars, nVars, peer, bVars, pchan>>

InitContexts ==
  /\ InitMq /\ InitConsumer({-1}) /\ InitOutbox({FALSE}, {FALSE}) /\ InitLoop
  /\ InitEnvelope(SUBSET Custom, {{}})
  /\ InitNames /\ InitPeer /\ InitLate

NextContexts ==
  \/ Tasking(OnMessageTask)
  \/ Tasking(TaskBegin)
  \/ Tasking(HandlerReads)
  \/ Tasking(HandlerEnds)
  \/ Tasking(TaskEnds)

SpecContexts == InitContexts /\ [][NextContexts]_vars

(* the context of a delivery: the trace id and the fields of its headers *)
OwnContext(m) ==
  {<<"trace_id", Get(tdata[m].headers, "X-TRACE-ID", 0)>>}
    \cup {<<k, Get(tdata[m].headers, HeaderOf(k), 0)>> : k \in allow}

(* C37: deliveries handled at the same time have separate contexts: the    *)
(* handler of a delivery and its commit_events read the trace id and the   *)
(* fields of their own delivery, and from the moment the context is set   *)
(* until the end of the delivery's own finally clause no other delivery    *)
(* clears or replaces it.                                                  *)
C37_ContextPerDelivery ==
  \A m \in Msgs :
    /\ tpc[m] \in {"handling", "acking"} => tvar[m] = OwnContext(m)
    /\ tpc[m] = "handling" => hvar[m] = OwnContext(m)
    /\ seen[m] # {} => seen[m] = OwnContext(m)
    /\ read[m] # {} => read[m] = OwnContext(m)

(* One delivery is over and has cleared its context while the handler of   *)
(* another, with another trace id, is running and has read its context.    *)
C37_Witness ==
  \E m, n \in Msgs :
    /\ tpc[m] = "handling" /\ seen[m] # {}
    /\ tpc[n] = "done"
    /\ Get(tdata[m].headers, "X-TRACE-ID", 0) # Get(tdata[n].headers, "X-TRACE-ID", 0)
    /\ "tenant_id" \in allow

(* Two consumers of one server, with different handlers and subscribed to  *)
(* the same routing key in either mode, and the broker: the consumers are  *)
(* started and restarted after a loss of the connection, an event is       *)
(* published, handlers fail, and the retry queue runs on its clock.        *)
Brokering(A) == A /\ UNCHANGED <<mqVars, dVars, oVars, pVars, eVars, peer, tVars, pchan>>

InitRetries ==
  /\ InitRunning /\ InitConsumer({MaxRetry}) /\ InitOutbox({FALSE}, {FALSE})
  /\ InitLoop /\ InitEnvelope({{}}, {{}}) /\ InitPeer /\ InitLate
  /\ \E s1, s2 \in BOOLEAN :
       built = [c \in Cons |-> IF c = 1 THEN Consumer(1, "created", s1)
                                         ELSE Consumer(2, "created", s2)]
  /\ declared = <<>> /\ uuids = 0 /\ arg = 0 /\ ttl = 0

NextRetries ==
  \/ Brokering(BrokerStart)
  \/ Brokering(ConnectionLost)
  \/ Brokering(PublishEvent({1}))
  \/ Brokering(Consume)
  \/ Brokering(Expire)
  \/ Brokering(Second)

SpecRetries == InitRetries /\ [][NextRetries]_vars

(* C34: a redelivery is made to the consumer that scheduled the retry, or  *)
(* to a work-mode consumer of the same handler (they share the queue):     *)
(* a consumer with another handler, bound to the same routing key, is not  *)
(* invoked again for a message it did not fail on.                         *)
C34_RetryToOwnQueueOnly ==
  \A g \in got :
    g.count > 0 =>
      \E f \in failed :
        /\ f.body = g.body
        /\ f.count + 1 = g.count
        /\ \/ f.consumer = g.consumer
           \/ /\ built[f.consumer].handler = built[g.consumer].handler
              /\ ~built[f.consumer].subscribe
              /\ ~built[g.consumer].subscribe

(* Two consumers with different handlers are bound to the same routing     *)
(* key, both handled the message, one failed and handled the redelivery,   *)
(* and the retry queue is empty again.                                     *)
C34_Witness ==
  \E c, d \in Cons :
    /\ built[c].made /\ built[d].made
    /\ built[c].handler # built[d].handler
    /\ built[c].routing_key = built[d].routing_key
    /\ [consumer |-> c, body |-> 1, count |-> 0] \in failed
    /\ [consumer |-> c, body |-> 1, count |-> 1] \in got
    /\ [consumer |-> d, body |-> 1, count |-> 0] \in got \ failed
    /\ rq = <<>> /\ inq = {}

(* The broker keeps its clock running and expires what is due. *)
FairRetries ==
  /\ WF_vars(Brokering(Second))
  /\ WF_vars(Brokering(Expire))

SpecRetriesFair == InitRetries /\ [][NextRetries]_vars /\ FairRetries

(* C31: a retry envelope with x-retry-count k leaves the retry queue not   *)
(* before delayFor(k) milliseconds after its publication; when it leaves   *)
(* while the consumer that scheduled it is running it is put in that       *)
(* consumer's queue; and every envelope leaves the retry queue.            *)
C31_RetryDelayedAndRedelivered ==
  /\ [][(rq # <<>> /\ rq' = Tail(rq)) =>
          /\ Head(rq).age * 1000 >= delayFor(Head(rq).count)
          /\ running[Head(rq).by] =>
               [queue |-> built[Head(rq).by].queue, body |-> Head(rq).body,
                count |-> Head(rq).count] \in inq']_vars
  /\ (rq # <<>>) ~> (rq = <<>>)

(* The started server, callers of publish() before and after start(), a   *)
(* broker that accepts every connection and every publish on an open       *)
(* connection and signals one connection error, and an event loop that     *)
(* runs every task and timer.                                              *)
Draining(A) == Sending(A) /\ UNCHANGED <<eVars, nVars, peer, tVars, bVars>>

NextDrain ==
  \/ NoClock(StartOnce)
  \/ NoClock(ConnectBegin)
  \/ NoClock(FromUrlOk)
  \/ NoClock(ChannelOk)
  \/ NoClock(ExchangeStepOk)
  \/ NoClock(ExchangeDone)
  \/ NoClock(ConnectCloseDone)
  \/ NoClock(OnErrorOnce)
  \/ NoClock(OnErrorCloseDone)
  \/ NoClock(TimerElapsed)
  \/ Looping(Publish)
  \/ Draining(LoopEnter)
  \/ Draining(LoopGetWakes)
  \/ Draining(PublishReturns)
  \/ Draining(PublishRaises)
  \/ Looping(RequeueRuns)

FairDrain ==
  /\ WF_vars(NoClock(StartOnce))
  /\ WF_vars(NoClock(ConnectBegin))
  /\ WF_vars(NoClock(FromUrlOk))
  /\ WF_vars(NoClock(ChannelOk))
  /\ WF_vars(NoClock(ExchangeStepOk))
  /\ WF_vars(NoClock(ExchangeDone))
  /\ WF_vars(NoClock(ConnectCloseDone))
  /\ WF_vars(NoClock(OnErrorCloseDone))
  /\ WF_vars(NoClock(TimerElapsed))
  /\ WF_vars(Draining(LoopEnter))
  /\ WF_vars(Draining(LoopGetWakes))
  /\ WF_vars(Draining(PublishReturns))
  /\ WF_vars(Draining(PublishRaises))
  /\ WF_vars(Looping(RequeueRuns))

SpecDrain == InitPublisher /\ [][NextDrain]_vars /\ FairDrain

(* C36: every item accepted by publish() is published to the broker later, *)
(* when the server was started and the broker stays reachable from some    *)
(* moment on, whether the item was accepted before start(), while          *)
(* connecting or while the connection was lost.                            *)
C36_EveryItemPublished ==
  \A i \in Ids : Queued(i) ~> Published(i)

=============================================================================
